---------------------------- MODULE Spec2Model ----------------------------
(***************************************************************************)
(* A model of training_app (Edu-backend): the relational state kept by     *)
(* models.py and the request handlers of views.py that read and write it.  *)
(* Each handler is one action; it records its HTTP response in `last`.     *)
(* purchase_package is also modelled step by step, for concurrent runs.     *)
(* Tables are sets of rows carrying the primary key in the field `id`.     *)
(***************************************************************************)
EXTENDS Integers, Sequences, FiniteSets, TLC

\* ------------------------------------------------------------------ bounds
NStudents == 2
NCourses == 1
MaxPackages == 2
MaxPurchases == 2
GatePackages == 1
GatePurchases == 1
MaxQuestions == 2
MaxSubmissions == 2
GradeQuestions == 3
MaxSections == 1
MaxSubSections == 1
MaxQuizzes == 1
MaxCalls == 3
MaxChoices == 3
RevealSubmissions == 1
MaxPrice == 2
MaxOrder == 2
OrderSections == 3
OrderSubSections == 1
GradingCalls == 1

VARIABLES
    courses,        \* Course rows: [id, is_published, created_by, assigned_teachers]
    packages,       \* Package rows: [id, is_published, is_free, price,
                    \*                discounted_price, courses]
    purchases,      \* PackagePurchase rows: [id, student, package, status]
    sections,       \* CourseSection rows: [id, course, order]
    subsections,    \* CourseSubSection rows: [id, section, order, content_type,
                    \*                         video_url, pdf_file]
    quizzes,        \* Quiz rows: [id, course, is_published]
    questions,      \* QuizQuestion rows: [id, quiz, order]
    choices,        \* QuizChoice rows: [id, question, is_correct]
    submissions,    \* QuizSubmission rows: [id, quiz, student, score, total]
    answers,        \* QuizAnswer rows: [id, submission, question,
                    \*                   selected_choice, is_correct]
    calls,          \* purchase_package requests run step by step: [id, user,
                    \*   pk, pc, created, purchase, raced, status, detail]
    last            \* the most recent operation and its response

vars == <<courses, packages, purchases, sections, subsections, quizzes,
          questions, choices, submissions, answers, calls, last>>

quizdata == <<questions, choices, submissions, answers>>

\* Everything but the response.
db == <<courses, packages, purchases, sections, subsections, quizzes, quizdata, calls>>

\* ------------------------------------------------------------ identity store
Students == 1..NStudents

Teachers == {11}

Admins == {21}

Users == Students \cup Teachers \cup Admins

\* User.save: a staff member without a role is stored as a teacher.
role(u) == IF u \in Students THEN "student" ELSE "teacher"

is_staff(u) == u \in Admins

\* ------------------------------------------------------------------ storage
Ids(table) == {r.id : r \in table}

Row(table, id) == CHOOSE r \in table : r.id = id

MaxOf(S) == CHOOSE m \in S : \A x \in S : x <= m

\* The primary key the database gives the next inserted row.
NextId(table) == IF table = {} THEN 1 ELSE MaxOf(Ids(table)) + 1

Replace(table, row) == {IF r.id = row.id THEN row ELSE r : r \in table}

\* ---------------------------------------------------------------- responses
\* op and user name the request, pk its path parameter, input its body;
\* status and detail are the HTTP status and the "detail" message; content is
\* the set of <<kind, id>> objects serialized into the body.
Response(op, user, pk, input, status, detail, content) ==
    [op |-> op, user |-> user, pk |-> pk, input |-> input,
     status |-> status, detail |-> detail, content |-> content]

NoInput == <<>>

\* A null foreign key.
Null == 0

\* rest_framework PermissionDenied: the request ends with 403 and no write.
Forbidden(op, user, pk, input) ==
    Response(op, user, pk, input, 403, "permission_denied", {})

\* The 404 an endpoint answers when the lookup of the addressed row raises
\* DoesNotExist: "Course not found", "Subsection not found", "Quiz not found".
NotFound(op, user, pk, input) ==
    Response(op, user, pk, input, 404, "not_found", {})

NeedPackage(op, user, pk, input) ==
    Response(op, user, pk, input, 403, "need_package", {})

\* --------------------------------------------------- access-control mediator
admin_only(user) == is_staff(user)

student_only(user) == role(user) = "student"

teacher_or_admin_only(user) == is_staff(user) \/ role(user) = "teacher"

is_teacher_assigned(course, teacher) == teacher \in course.assigned_teachers

can_modify_course(user, course) ==
    IF is_staff(user) THEN TRUE
    ELSE IF role(user) = "teacher" THEN is_teacher_assigned(course, user)
    ELSE FALSE


\* -------------------------------------------------------- entitlement engine
\* The access filter without its status="active" condition.
access_any_status(user, course) ==
    \E pu \in purchases :
        /\ pu.student = user
        /\ \E pk \in packages :
            /\ pk.id = pu.package
            /\ course.id \in pk.courses
            /\ pk.is_published

\* The access filter without its package__is_published=True condition.
access_any_package(user, course) ==
    \E pu \in purchases :
        /\ pu.student = user
        /\ pu.status = "active"
        /\ \E pk \in packages :
            /\ pk.id = pu.package
            /\ course.id \in pk.courses

\* PackagePurchase.objects.filter(student=user, status="active",
\*     package__courses=course, package__is_published=True).exists()
student_has_course_access(user, course) ==
    \E pu \in purchases :
        /\ pu.student = user
        /\ pu.status = "active"
        /\ \E pk \in packages :
            /\ pk.id = pu.package
            /\ course.id \in pk.courses
            /\ pk.is_published

\* ------------------------------------------------------------ request bodies
\* A request body is a record holding only the fields the client sent.
Has(data, f) == f \in DOMAIN data

Get(data, f, default) == IF f \in DOMAIN data THEN data[f] ELSE default

\* An optional value: <<>> is None, <<v>> is v.
None == <<>>

Some(v) == <<v>>

\* Python truthiness of an optional number: None and 0 are false.
Truthy(opt) == opt # None /\ opt[1] # 0

\* --------------------------------------------------------- course management
\* course_list_create POST and CourseCreateSerializer.create
CourseCreate(user, is_published, teacher_ids) ==
    LET input == [is_published |-> is_published, assigned_teacher_ids |-> teacher_ids]
        id == NextId(courses)
    IN  IF ~admin_only(user)
           THEN /\ last' = Forbidden("course_create", user, 0, input)
                /\ UNCHANGED db
           ELSE /\ courses' = courses \cup
                       {[id |-> id, is_published |-> is_published,
                         created_by |-> user,
                         assigned_teachers |-> teacher_ids \cap Teachers]}
                /\ last' = Response("course_create", user, 0, input, 201, "created",
                                    {<<"course", id>>})
                /\ UNCHANGED <<packages, purchases, sections, subsections, quizzes, quizdata, calls>>

\* course_detail PATCH {"is_published": b}
CoursePatch(user, pk, is_published) ==
    LET input == [is_published |-> is_published] IN
    IF pk \notin Ids(courses)
    THEN /\ last' = NotFound("course_patch", user, pk, input)
         /\ UNCHANGED db
    ELSE LET course == Row(courses, pk) IN
         IF \/ (role(user) = "teacher" /\ ~is_staff(user)
                    /\ ~is_teacher_assigned(course, user))
            \/ ~can_modify_course(user, course)
         THEN /\ last' = Forbidden("course_patch", user, pk, input)
              /\ UNCHANGED db
         ELSE /\ courses' = Replace(courses, [course EXCEPT !.is_published = is_published])
              /\ last' = Response("course_patch", user, pk, input, 200, "ok",
                                  {<<"course", pk>>})
              /\ UNCHANGED <<packages, purchases, sections, subsections, quizzes, quizdata, calls>>

\* The Course page of the Django admin site: created_by and assigned_teachers
\* are plain form fields there.
CourseAdminSave(pk, creator, assigned) ==
    /\ pk \in Ids(courses)
    /\ courses' = Replace(courses, [Row(courses, pk) EXCEPT !.created_by = creator,
                                                            !.assigned_teachers = assigned])
    /\ last' = Response("course_admin_save", 0, pk,
                        [created_by |-> creator, assigned_teachers |-> assigned],
                        200, "ok", {})
    /\ UNCHANGED <<packages, purchases, sections, subsections, quizzes, quizdata, calls>>

\* -------------------------------------------------------- package management
\* PackageCreateSerializer.validate: the pricing rules, from the fields sent.
PackageValid(data) ==
    LET is_free == Get(data, "is_free", FALSE)
        price == Get(data, "price", 0)
        discounted_price == Get(data, "discounted_price", None)
    IN  IF is_free
        THEN /\ ~(price # 0 /\ price > 0)
             /\ ~(Truthy(discounted_price) /\ discounted_price[1] > 0)
        ELSE /\ ~(price = 0 \/ price <= 0)
             /\ Truthy(discounted_price) =>
                    /\ ~(discounted_price[1] <= 0)
                    /\ ~(discounted_price[1] >= price)

\* Course.objects.filter(id__in=course_ids), narrowed to the published
\* courses when the package is published.
PackageCourses(course_ids, is_published) ==
    {c.id : c \in {c \in courses : c.id \in course_ids
                                    /\ (is_published => c.is_published)}}

\* package_list_create POST and PackageCreateSerializer.create
PackageCreate(user, data) ==
    LET id == NextId(packages) IN
    IF ~admin_only(user)
       THEN /\ last' = Forbidden("package_create", user, 0, data)
            /\ UNCHANGED db
       ELSE IF ~PackageValid(data)
       THEN /\ last' = Response("package_create", user, 0, data, 400, "invalid", {})
            /\ UNCHANGED db
       ELSE /\ packages' = packages \cup
                {[id |-> id,
                  is_published |-> Get(data, "is_published", FALSE),
                  is_free |-> Get(data, "is_free", FALSE),
                  price |-> Get(data, "price", 0),
                  discounted_price |-> Get(data, "discounted_price", None),
                  courses |-> PackageCourses(Get(data, "course_ids", {}),
                                             Get(data, "is_published", FALSE))]}
            /\ last' = Response("package_create", user, 0, data, 201, "created",
                                {<<"package", id>>})
            /\ UNCHANGED <<courses, purchases, sections, subsections, quizzes, quizdata, calls>>

\* PackageCreateSerializer.update: every field sent is stored; the course set
\* is replaced only when course_ids was sent.
PackageUpdate(instance, data) ==
    LET set == [id |-> instance.id,
                is_published |-> Get(data, "is_published", instance.is_published),
                is_free |-> Get(data, "is_free", instance.is_free),
                price |-> Get(data, "price", instance.price),
                discounted_price |-> Get(data, "discounted_price",
                                         instance.discounted_price),
                courses |-> instance.courses]
    IN  IF Has(data, "course_ids")
        THEN [set EXCEPT !.courses = PackageCourses(data.course_ids, set.is_published)]
        ELSE set

\* package_detail PATCH
PackagePatch(user, pk, data) ==
    IF ~admin_only(user)
    THEN /\ last' = Forbidden("package_patch", user, pk, data)
         /\ UNCHANGED db
    ELSE IF pk \notin Ids(packages)
    THEN /\ last' = NotFound("package_patch", user, pk, data)
         /\ UNCHANGED db
    ELSE IF ~PackageValid(data)
    THEN /\ last' = Response("package_patch", user, pk, data, 400, "invalid", {})
         /\ UNCHANGED db
    ELSE /\ packages' = Replace(packages, PackageUpdate(Row(packages, pk), data))
         /\ last' = Response("package_patch", user, pk, data, 200, "ok",
                             {<<"package", pk>>})
         /\ UNCHANGED <<courses, purchases, sections, subsections, quizzes, quizdata, calls>>

\* ------------------------------------------------------------------ purchases
\* Meta.unique_together = ("student", "package"): the rows an insert of
\* (student, package) would collide with.
PurchaseOf(student, package) ==
    {pu \in purchases : pu.student = student /\ pu.package = package}

\* PackagePurchase.objects.get_or_create(student, package,
\* defaults={"status": "active"}) run without interruption: <<row, created>>.
get_or_create(student, package) ==
    IF PurchaseOf(student, package) # {}
    THEN <<CHOOSE pu \in PurchaseOf(student, package) : TRUE, FALSE>>
    ELSE <<[id |-> NextId(purchases), student |-> student, package |-> package,
            status |-> "active"], TRUE>>

\* purchase_package POST
PurchasePackage(user, pk) ==
    IF ~student_only(user)
    THEN /\ last' = Forbidden("purchase_package", user, pk, NoInput)
         /\ UNCHANGED db
    ELSE IF ~\E p \in packages : p.id = pk /\ p.is_published
    THEN /\ last' = NotFound("purchase_package", user, pk, NoInput)
         /\ UNCHANGED db
    ELSE LET got == get_or_create(user, pk) IN
         /\ purchases' = purchases \cup {got[1]}
         /\ last' = Response("purchase_package", user, pk, NoInput,
                             IF got[2] THEN 201 ELSE 200,
                             IF got[2] THEN "Package unlocked" ELSE "Package already owned",
                             {<<"purchase", got[1].id>>})
         /\ UNCHANGED <<courses, packages, sections, subsections, quizzes, quizdata, calls>>

\* ------------------------------------- purchase_package, one query at a time
\* Concurrent requests interleave between the queries of get_or_create:
\* get; create inside a savepoint; on IntegrityError, get again.
Call(id) == CHOOSE c \in calls : c.id = id

SetCall(c) == {x \in calls : x.id # c.id} \cup {c}

NewCall(user, pk) ==
    [id |-> NextId(calls), user |-> user, pk |-> pk, pc |-> "get",
     created |-> FALSE, purchase |-> Null, raced |-> FALSE,
     status |-> 0, detail |-> ""]

Done(c, resp) == [c EXCEPT !.pc = "done", !.status = resp.status, !.detail = resp.detail]

\* The database without the unique index.
no_unique_index(student, package) == TRUE

\* unique_together ("student", "package"): the index admits a new row for
\* the pair only when the pair has none.
unique_together(student, package) == PurchaseOf(student, package) = {}

\* student_only and Package.objects.get(pk=pk, is_published=True)
PurchaseBegin(user, pk) ==
    LET c == NewCall(user, pk) IN
    IF ~student_only(user)
    THEN /\ last' = Forbidden("purchase_package", user, pk, NoInput)
         /\ calls' = calls \cup {Done(c, last')}
         /\ UNCHANGED <<courses, packages, purchases, sections, subsections,
                        quizzes, quizdata>>
    ELSE IF ~\E p \in packages : p.id = pk /\ p.is_published
    THEN /\ last' = NotFound("purchase_package", user, pk, NoInput)
         /\ calls' = calls \cup {Done(c, last')}
         /\ UNCHANGED <<courses, packages, purchases, sections, subsections,
                        quizzes, quizdata>>
    ELSE /\ calls' = calls \cup {c}
         /\ UNCHANGED <<courses, packages, purchases, sections, subsections,
                        quizzes, quizdata, last>>

\* self.get(student=..., package=...): the row, DoesNotExist, or
\* MultipleObjectsReturned (which nothing catches).
PurchaseGet(id) ==
    LET c == Call(id)
        found == PurchaseOf(c.user, c.pk)
    IN  /\ c.pc \in {"get", "retry"}
        /\ IF Cardinality(found) > 1
           THEN /\ last' = Response("purchase_package", c.user, c.pk, NoInput, 500,
                                    "MultipleObjectsReturned", {})
                /\ calls' = SetCall(Done(c, last'))
           ELSE IF found # {}
           THEN /\ calls' = SetCall([c EXCEPT !.pc = "respond", !.created = FALSE,
                                               !.purchase = (CHOOSE pu \in found : TRUE).id])
                /\ UNCHANGED last
           ELSE IF c.pc = "get"
           THEN /\ calls' = SetCall([c EXCEPT !.pc = "create"])
                /\ UNCHANGED last
           ELSE \* the second get finds nothing: the IntegrityError is re-raised
                /\ last' = Response("purchase_package", c.user, c.pk, NoInput, 500,
                                    "IntegrityError", {})
                /\ calls' = SetCall(Done(c, last'))
        /\ UNCHANGED <<courses, packages, purchases, sections, subsections,
                       quizzes, quizdata>>

\* self.create(student=..., package=..., status="active") in the savepoint.
PurchaseCreate(id) ==
    LET c == Call(id)
        row == [id |-> NextId(purchases), student |-> c.user, package |-> c.pk,
                status |-> "active"]
    IN  /\ c.pc = "create"
        /\ IF unique_together(c.user, c.pk)
           THEN /\ purchases' = purchases \cup {row}
                /\ calls' = SetCall([c EXCEPT !.pc = "respond", !.created = TRUE,
                                               !.purchase = row.id])
           ELSE \* IntegrityError: caught, the row is looked up again
                /\ calls' = SetCall([c EXCEPT !.pc = "retry", !.raced = TRUE])
                /\ UNCHANGED purchases
        /\ UNCHANGED <<courses, packages, sections, subsections, quizzes,
                       quizdata, last>>

\* The response: 201 "Package unlocked" if created, else 200 "Package
\* already owned", with the purchase serialized.
PurchaseRespond(id) ==
    LET c == Call(id) IN
    /\ c.pc = "respond"
    /\ last' = Response("purchase_package", c.user, c.pk, NoInput,
                        IF c.created THEN 201 ELSE 200,
                        IF c.created THEN "Package unlocked" ELSE "Package already owned",
                        {<<"purchase", c.purchase>>})
    /\ calls' = SetCall(Done(c, last'))
    /\ UNCHANGED <<courses, packages, purchases, sections, subsections,
                   quizzes, quizdata>>

\* PackagePurchase.status is a free-text field with no endpoint of its own:
\* a purchase is revoked or restored by a storage-level update of the row.
PurchaseStatuses == {"active", "refunded"}

SetPurchaseStatus(id, status) ==
    /\ id \in Ids(purchases)
    /\ purchases' = Replace(purchases, [Row(purchases, id) EXCEPT !.status = status])
    /\ last' = Response("set_purchase_status", 0, id, [status |-> status], 0, "orm", {})
    /\ UNCHANGED <<courses, packages, sections, subsections, quizzes, quizdata, calls>>

\* ------------------------------------------------- sections and sub-sections
\* aggregate(Max("order"))["order__max"] or 0
last_order(rows) == IF rows = {} THEN 0 ELSE MaxOf({r.order : r \in rows})

\* data["order"] = last_order + 1
set_order(data, order) ==
    [f \in DOMAIN data \cup {"order"} |-> IF f = "order" THEN order ELSE data[f]]

\* The serializer field of a PositiveIntegerField with default=1: optional,
\* with min_value 0.
order_field(data) == Get(data, "order", 1)

\* MinValueValidator(0) of PositiveIntegerField
order_valid(order) == order >= 0

\* UniqueTogetherValidator ("course", "order") of CourseSectionSerializer,
\* the instance under update left out of the queryset.
section_unique(course_id, order, instance_id) ==
    ~\E x \in sections : x.course = course_id /\ x.order = order /\ x.id # instance_id

\* CourseSectionSerializer(instance, data=data).is_valid()
CourseSectionValid(data, instance_id) ==
    /\ Has(data, "course") /\ data.course \in Ids(courses)
    /\ order_valid(order_field(data))
    /\ section_unique(data.course, order_field(data), instance_id)

\* section_list_create POST {"course": course_id, "order": o}
SectionCreate(user, data) ==
    LET id == NextId(sections)
        course_id == Get(data, "course", Null)
    IN  IF ~teacher_or_admin_only(user)
           THEN /\ last' = Forbidden("section_create", user, 0, data)
                /\ UNCHANGED db
           ELSE IF course_id \notin Ids(courses)
           THEN /\ last' = NotFound("section_create", user, 0, data)
                /\ UNCHANGED db
           ELSE IF ~can_modify_course(user, Row(courses, course_id))
           THEN /\ last' = Forbidden("section_create", user, 0, data)
                /\ UNCHANGED db
           ELSE LET sent == set_order(data,
                        last_order({x \in sections : x.course = course_id}) + 1)
                IN  IF ~CourseSectionValid(sent, Null)
                    THEN /\ last' = Response("section_create", user, 0, data, 400,
                                             "invalid", {})
                         /\ UNCHANGED db
                    ELSE /\ sections' = sections \cup
                                {[id |-> id, course |-> sent.course, order |-> sent.order]}
                         /\ last' = Response("section_create", user, 0, data, 201,
                                             "created", {<<"section", id>>})
                         /\ UNCHANGED <<courses, packages, purchases, subsections,
                                        quizzes, quizdata, calls>>

\* section_detail GET
SectionDetail(user, pk) ==
    /\ UNCHANGED db
    /\ last' =
        IF ~teacher_or_admin_only(user)
        THEN Forbidden("section_detail", user, pk, NoInput)
        ELSE IF pk \notin Ids(sections)
        THEN NotFound("section_detail", user, pk, NoInput)
        ELSE IF ~can_modify_course(user, Row(courses, Row(sections, pk).course))
        THEN Forbidden("section_detail", user, pk, NoInput)
        ELSE Response("section_detail", user, pk, NoInput, 200, "ok", {<<"section", pk>>})

\* section_detail PUT {"course": c, "order": o}
SectionPut(user, pk, data) ==
    IF ~teacher_or_admin_only(user)
    THEN /\ last' = Forbidden("section_put", user, pk, data)
         /\ UNCHANGED db
    ELSE IF pk \notin Ids(sections)
    THEN /\ last' = NotFound("section_put", user, pk, data)
         /\ UNCHANGED db
    ELSE IF ~can_modify_course(user, Row(courses, Row(sections, pk).course))
    THEN /\ last' = Forbidden("section_put", user, pk, data)
         /\ UNCHANGED db
    ELSE IF ~CourseSectionValid(data, pk)
    THEN /\ last' = Response("section_put", user, pk, data, 400, "invalid", {})
         /\ UNCHANGED db
    ELSE /\ sections' = Replace(sections,
                [id |-> pk, course |-> data.course, order |-> order_field(data)])
         /\ last' = Response("section_put", user, pk, data, 200, "ok", {<<"section", pk>>})
         /\ UNCHANGED <<courses, packages, purchases, subsections, quizzes,
                        quizdata, calls>>

\* section_detail DELETE: the section goes, and its sub-sections with it
\* (on_delete=CASCADE).
SectionDelete(user, pk) ==
    IF ~teacher_or_admin_only(user)
    THEN /\ last' = Forbidden("section_delete", user, pk, NoInput)
         /\ UNCHANGED db
    ELSE IF pk \notin Ids(sections)
    THEN /\ last' = NotFound("section_delete", user, pk, NoInput)
         /\ UNCHANGED db
    ELSE IF ~can_modify_course(user, Row(courses, Row(sections, pk).course))
    THEN /\ last' = Forbidden("section_delete", user, pk, NoInput)
         /\ UNCHANGED db
    ELSE /\ sections' = {x \in sections : x.id # pk}
         /\ subsections' = {x \in subsections : x.section # pk}
         /\ last' = Response("section_delete", user, pk, NoInput, 204, "deleted", {})
         /\ UNCHANGED <<courses, packages, purchases, quizzes, quizdata, calls>>

\* CourseSubSection.CONTENT_CHOICES
CONTENT_CHOICES == {"video", "pdf"}

\* UniqueTogetherValidator ("section", "order") of CourseSubSectionSerializer
subsection_unique(section_id, order, instance_id) ==
    ~\E x \in subsections :
        x.section = section_id /\ x.order = order /\ x.id # instance_id

\* The fields of CourseSubSectionSerializer beside section and order:
\* content_type is required and one of CONTENT_CHOICES; video_url and
\* pdf_file are optional and nullable. The serializer has no validate().
content_valid(data) ==
    Has(data, "content_type") /\ data.content_type \in CONTENT_CHOICES

\* CourseSubSectionSerializer(instance, data=data).is_valid()
CourseSubSectionValid(data, instance_id) ==
    /\ Has(data, "section") /\ data.section \in Ids(sections)
    /\ order_valid(order_field(data))
    /\ content_valid(data)
    /\ subsection_unique(data.section, order_field(data), instance_id)

\* The row serializer.save() stores.
SubSectionRow(id, data) ==
    [id |-> id, section |-> data.section, order |-> order_field(data),
     content_type |-> data.content_type,
     video_url |-> Get(data, "video_url", None),
     pdf_file |-> Get(data, "pdf_file", None)]

\* subsection_list_create POST
SubSectionCreate(user, data) ==
    LET id == NextId(subsections)
        section_id == Get(data, "section", Null)
    IN  IF ~teacher_or_admin_only(user)
           THEN /\ last' = Forbidden("subsection_create", user, 0, data)
                /\ UNCHANGED db
           ELSE IF section_id \notin Ids(sections)
           THEN /\ last' = NotFound("subsection_create", user, 0, data)
                /\ UNCHANGED db
           ELSE IF ~can_modify_course(user,
                        Row(courses, Row(sections, section_id).course))
           THEN /\ last' = Forbidden("subsection_create", user, 0, data)
                /\ UNCHANGED db
           ELSE LET sent == set_order(data,
                        last_order({x \in subsections : x.section = section_id}) + 1)
                IN  IF ~CourseSubSectionValid(sent, Null)
                    THEN /\ last' = Response("subsection_create", user, 0, data, 400,
                                             "invalid", {})
                         /\ UNCHANGED db
                    ELSE /\ subsections' = subsections \cup {SubSectionRow(id, sent)}
                         /\ last' = Response("subsection_create", user, 0, data, 201,
                                             "created", {<<"subsection", id>>})
                         /\ UNCHANGED <<courses, packages, purchases, sections,
                                        quizzes, quizdata, calls>>

\* The course of a stored sub-section.
SubSectionCourse(pk) == Row(courses, Row(sections, Row(subsections, pk).section).course)

\* subsection_detail PUT
SubSectionPut(user, pk, data) ==
    IF ~teacher_or_admin_only(user)
    THEN /\ last' = Forbidden("subsection_put", user, pk, data)
         /\ UNCHANGED db
    ELSE IF pk \notin Ids(subsections)
    THEN /\ last' = NotFound("subsection_put", user, pk, data)
         /\ UNCHANGED db
    ELSE IF ~can_modify_course(user, SubSectionCourse(pk))
    THEN /\ last' = Forbidden("subsection_put", user, pk, data)
         /\ UNCHANGED db
    ELSE IF ~CourseSubSectionValid(data, pk)
    THEN /\ last' = Response("subsection_put", user, pk, data, 400, "invalid", {})
         /\ UNCHANGED db
    ELSE /\ subsections' = Replace(subsections, SubSectionRow(pk, data))
         /\ last' = Response("subsection_put", user, pk, data, 200, "ok",
                             {<<"subsection", pk>>})
         /\ UNCHANGED <<courses, packages, purchases, sections, quizzes,
                        quizdata, calls>>

\* subsection_detail DELETE
SubSectionDelete(user, pk) ==
    IF ~teacher_or_admin_only(user)
    THEN /\ last' = Forbidden("subsection_delete", user, pk, NoInput)
         /\ UNCHANGED db
    ELSE IF pk \notin Ids(subsections)
    THEN /\ last' = NotFound("subsection_delete", user, pk, NoInput)
         /\ UNCHANGED db
    ELSE IF ~can_modify_course(user, SubSectionCourse(pk))
    THEN /\ last' = Forbidden("subsection_delete", user, pk, NoInput)
         /\ UNCHANGED db
    ELSE /\ subsections' = {x \in subsections : x.id # pk}
         /\ last' = Response("subsection_delete", user, pk, NoInput, 204, "deleted", {})
         /\ UNCHANGED <<courses, packages, purchases, sections, quizzes,
                        quizdata, calls>>

\* ------------------------------- section and sub-section create, step by step
\* Concurrent requests interleave between the queries of a create: the
\* Max("order") aggregate, the unique-together validator of is_valid(), and
\* the INSERT of save().
NewCreateCall(op, user, data) ==
    [id |-> NextId(calls), op |-> op, user |-> user, data |-> data,
     parent |-> Null, pc |-> "validate", row |-> Null, status |-> 0, detail |-> ""]

\* The request returns resp.
Return(c, resp) ==
    /\ last' = resp
    /\ calls' = SetCall([c EXCEPT !.pc = "done", !.status = resp.status,
                                  !.detail = resp.detail])

\* The table without the unique index.
no_section_index(course_id, order) == TRUE

\* The unique index of unique_together ("course", "order"): the INSERT goes
\* through when no row holds the pair.
section_index(course_id, order) ==
    ~\E x \in sections : x.course = course_id /\ x.order = order

\* The unique index of unique_together ("section", "order")
subsection_index(section_id, order) ==
    ~\E x \in subsections : x.section = section_id /\ x.order = order

\* The guards and the aggregate of section_list_create POST
SectionBegin(user, data) ==
    LET c == NewCreateCall("section_create", user, data)
        course_id == Get(data, "course", Null)
    IN  /\ IF ~teacher_or_admin_only(user)
           THEN Return(c, Forbidden("section_create", user, 0, data))
           ELSE IF course_id \notin Ids(courses)
           THEN Return(c, NotFound("section_create", user, 0, data))
           ELSE IF ~can_modify_course(user, Row(courses, course_id))
           THEN Return(c, Forbidden("section_create", user, 0, data))
           ELSE /\ calls' = calls \cup
                    {[c EXCEPT !.parent = course_id,
                               !.data = set_order(data,
                                    last_order({x \in sections : x.course = course_id}) + 1)]}
                /\ UNCHANGED last
        /\ UNCHANGED <<courses, packages, purchases, sections, subsections,
                       quizzes, quizdata>>

\* serializer.is_valid()
SectionValidate(id) ==
    LET c == Call(id) IN
    /\ c.op = "section_create" /\ c.pc = "validate"
    /\ IF ~CourseSectionValid(c.data, Null)
       THEN Return(c, Response("section_create", c.user, 0, c.data, 400, "invalid", {}))
       ELSE calls' = SetCall([c EXCEPT !.pc = "save"]) /\ UNCHANGED last
    /\ UNCHANGED <<courses, packages, purchases, sections, subsections,
                   quizzes, quizdata>>

\* serializer.save() and the 201 response; an IntegrityError of the INSERT is
\* caught by nothing.
SectionSave(id) ==
    LET c == Call(id)
        row == [id |-> NextId(sections), course |-> c.data.course, order |-> c.data.order]
    IN  /\ c.op = "section_create" /\ c.pc = "save"
        /\ IF section_index(row.course, row.order)
           THEN /\ sections' = sections \cup {row}
                /\ Return([c EXCEPT !.row = row.id],
                          Response("section_create", c.user, 0, c.data, 201, "created",
                                   {<<"section", row.id>>}))
           ELSE /\ UNCHANGED sections
                /\ Return(c, Response("section_create", c.user, 0, c.data, 500,
                                      "IntegrityError", {}))
        /\ UNCHANGED <<courses, packages, purchases, subsections, quizzes, quizdata>>

\* The guards and the aggregate of subsection_list_create POST
SubSectionBegin(user, data) ==
    LET c == NewCreateCall("subsection_create", user, data)
        section_id == Get(data, "section", Null)
    IN  /\ IF ~teacher_or_admin_only(user)
           THEN Return(c, Forbidden("subsection_create", user, 0, data))
           ELSE IF section_id \notin Ids(sections)
           THEN Return(c, NotFound("subsection_create", user, 0, data))
           ELSE IF ~can_modify_course(user, Row(courses, Row(sections, section_id).course))
           THEN Return(c, Forbidden("subsection_create", user, 0, data))
           ELSE /\ calls' = calls \cup
                    {[c EXCEPT !.parent = section_id,
                               !.data = set_order(data,
                                    last_order({x \in subsections :
                                                    x.section = section_id}) + 1)]}
                /\ UNCHANGED last
        /\ UNCHANGED <<courses, packages, purchases, sections, subsections,
                       quizzes, quizdata>>

\* serializer.is_valid()
SubSectionValidate(id) ==
    LET c == Call(id) IN
    /\ c.op = "subsection_create" /\ c.pc = "validate"
    /\ IF ~CourseSubSectionValid(c.data, Null)
       THEN Return(c, Response("subsection_create", c.user, 0, c.data, 400, "invalid", {}))
       ELSE calls' = SetCall([c EXCEPT !.pc = "save"]) /\ UNCHANGED last
    /\ UNCHANGED <<courses, packages, purchases, sections, subsections,
                   quizzes, quizdata>>

\* serializer.save() and the 201 response
SubSectionSave(id) ==
    LET c == Call(id)
        row == SubSectionRow(NextId(subsections), c.data)
    IN  /\ c.op = "subsection_create" /\ c.pc = "save"
        /\ IF subsection_index(row.section, row.order)
           THEN /\ subsections' = subsections \cup {row}
                /\ Return([c EXCEPT !.row = row.id],
                          Response("subsection_create", c.user, 0, c.data, 201, "created",
                                   {<<"subsection", row.id>>}))
           ELSE /\ UNCHANGED subsections
                /\ Return(c, Response("subsection_create", c.user, 0, c.data, 500,
                                      "IntegrityError", {}))
        /\ UNCHANGED <<courses, packages, purchases, sections, quizzes, quizdata>>

\* course_list_create GET
CourseList(user) ==
    /\ UNCHANGED db
    /\ last' = Response("course_list", user, 0, NoInput, 200, "ok",
                        {<<"course", c.id>> : c \in
                            IF is_staff(user) THEN courses
                            ELSE IF role(user) = "teacher"
                            THEN {c \in courses : is_teacher_assigned(c, user)
                                                    \/ c.created_by = user}
                            ELSE {}})

\* course_detail GET
CourseDetail(user, pk) ==
    /\ UNCHANGED db
    /\ last' =
        IF pk \notin Ids(courses)
        THEN NotFound("course_detail", user, pk, NoInput)
        ELSE IF role(user) = "teacher" /\ ~is_staff(user)
                    /\ ~is_teacher_assigned(Row(courses, pk), user)
        THEN Forbidden("course_detail", user, pk, NoInput)
        ELSE Response("course_detail", user, pk, NoInput, 200, "ok", {<<"course", pk>>})

\* student_course_list GET: the published courses of the published packages
\* the student has an active purchase of, or that are free.
StudentCourseList(user) ==
    /\ UNCHANGED db
    /\ last' =
        IF ~student_only(user)
        THEN Forbidden("student_course_list", user, 0, NoInput)
        ELSE LET purchased_course_ids ==
                    UNION {p.courses : p \in {p \in packages :
                        /\ p.is_published
                        /\ \E pu \in purchases : /\ pu.package = p.id
                                                  /\ pu.student = user
                                                  /\ pu.status = "active"}}
                 free_package_course_ids ==
                    UNION {p.courses : p \in {p \in packages :
                                                p.is_published /\ p.is_free}}
             IN  Response("student_course_list", user, 0, NoInput, 200, "ok",
                          {<<"course", c.id>> : c \in {c \in courses :
                              /\ c.is_published
                              /\ c.id \in purchased_course_ids \cup free_package_course_ids}})

\* ---------------------------------------------------------- student endpoints
\* student_course_detail GET
StudentCourseDetail(user, pk) ==
    /\ UNCHANGED db
    /\ last' =
        IF ~student_only(user)
        THEN Forbidden("student_course_detail", user, pk, NoInput)
        ELSE IF ~\E c \in courses : c.id = pk /\ c.is_published
        THEN NotFound("student_course_detail", user, pk, NoInput)
        ELSE IF ~student_has_course_access(user, Row(courses, pk))
        THEN NeedPackage("student_course_detail", user, pk, NoInput)
        ELSE Response("student_course_detail", user, pk, NoInput, 200, "ok",
                      {<<"course", pk>>})

\* student_subsection_detail GET
StudentSubSectionDetail(user, pk) ==
    /\ UNCHANGED db
    /\ last' =
        IF ~student_only(user)
        THEN Forbidden("student_subsection_detail", user, pk, NoInput)
        ELSE IF pk \notin Ids(subsections)
        THEN NotFound("student_subsection_detail", user, pk, NoInput)
        ELSE LET course == Row(courses, Row(sections, Row(subsections, pk).section).course)
             IN  IF ~course.is_published
                 THEN Response("student_subsection_detail", user, pk, NoInput, 404,
                               "Course not available", {})
                 ELSE IF ~student_has_course_access(user, course)
                 THEN NeedPackage("student_subsection_detail", user, pk, NoInput)
                 ELSE Response("student_subsection_detail", user, pk, NoInput, 200, "ok",
                               {<<"subsection", pk>>})

\* ------------------------------------------------------------ quiz endpoints
\* course_quiz_list_create POST {"is_published": b}
QuizCreate(user, course_id, data) ==
    LET id == NextId(quizzes) IN
    IF ~\E c \in courses : c.id = course_id /\ c.is_published
       THEN /\ last' = NotFound("quiz_create", user, course_id, data)
            /\ UNCHANGED db
       ELSE IF ~teacher_or_admin_only(user)
                \/ ~can_modify_course(user, Row(courses, course_id))
       THEN /\ last' = Forbidden("quiz_create", user, course_id, data)
            /\ UNCHANGED db
       ELSE /\ quizzes' = quizzes \cup
                {[id |-> id, course |-> course_id,
                  is_published |-> Get(data, "is_published", FALSE)]}
            /\ last' = Response("quiz_create", user, course_id, data, 201, "created",
                                {<<"quiz_admin", id>>})
            /\ UNCHANGED <<courses, packages, purchases, sections, subsections,
                           quizdata, calls>>

\* course_quiz_list_create GET
QuizList(user, course_id) ==
    /\ UNCHANGED db
    /\ last' =
        IF ~\E c \in courses : c.id = course_id /\ c.is_published
        THEN NotFound("quiz_list", user, course_id, NoInput)
        ELSE LET course == Row(courses, course_id) IN
             IF role(user) = "student"
             THEN IF ~student_has_course_access(user, course)
                  THEN NeedPackage("quiz_list", user, course_id, NoInput)
                  ELSE Response("quiz_list", user, course_id, NoInput, 200, "ok",
                           {<<"quiz", q.id>> : q \in {q \in quizzes :
                                q.course = course_id /\ q.is_published}})
             ELSE IF ~teacher_or_admin_only(user) \/ ~can_modify_course(user, course)
                  THEN Forbidden("quiz_list", user, course_id, NoInput)
                  ELSE Response("quiz_list", user, course_id, NoInput, 200, "ok",
                           {<<"quiz_admin", q.id>> : q \in {q \in quizzes :
                                q.course = course_id}})

\* quiz_detail GET
QuizDetail(user, quiz_id) ==
    /\ UNCHANGED db
    /\ last' =
        IF quiz_id \notin Ids(quizzes)
        THEN NotFound("quiz_detail", user, quiz_id, NoInput)
        ELSE LET quiz == Row(quizzes, quiz_id)
                 course == Row(courses, quiz.course)
             IN  IF role(user) = "student"
                 THEN IF ~quiz.is_published \/ ~course.is_published
                      THEN Response("quiz_detail", user, quiz_id, NoInput, 404,
                                    "Quiz not available", {})
                      ELSE IF ~student_has_course_access(user, course)
                      THEN NeedPackage("quiz_detail", user, quiz_id, NoInput)
                      ELSE Response("quiz_detail", user, quiz_id, NoInput, 200, "ok",
                                    {<<"quiz", quiz_id>>})
                 ELSE IF ~teacher_or_admin_only(user) \/ ~can_modify_course(user, course)
                      THEN Forbidden("quiz_detail", user, quiz_id, NoInput)
                      ELSE Response("quiz_detail", user, quiz_id, NoInput, 200, "ok",
                                    {<<"quiz_admin", quiz_id>>})

\* quiz_detail PATCH {"is_published": b}
QuizPatch(user, quiz_id, data) ==
    IF quiz_id \notin Ids(quizzes)
    THEN /\ last' = NotFound("quiz_patch", user, quiz_id, data)
         /\ UNCHANGED db
    ELSE LET quiz == Row(quizzes, quiz_id) IN
         IF ~teacher_or_admin_only(user)
                \/ ~can_modify_course(user, Row(courses, quiz.course))
         THEN /\ last' = Forbidden("quiz_patch", user, quiz_id, data)
              /\ UNCHANGED db
         ELSE /\ quizzes' = Replace(quizzes,
                    [quiz EXCEPT !.is_published = Get(data, "is_published", @)])
              /\ last' = Response("quiz_patch", user, quiz_id, data, 200, "ok",
                                  {<<"quiz_admin", quiz_id>>})
              /\ UNCHANGED <<courses, packages, purchases, sections, subsections,
                             quizdata, calls>>

\* quiz_detail DELETE: the quiz goes, with its questions, choices,
\* submissions and answers (on_delete=CASCADE).
QuizDelete(user, quiz_id) ==
    IF quiz_id \notin Ids(quizzes)
    THEN /\ last' = NotFound("quiz_delete", user, quiz_id, NoInput)
         /\ UNCHANGED db
    ELSE IF ~teacher_or_admin_only(user)
                \/ ~can_modify_course(user, Row(courses, Row(quizzes, quiz_id).course))
    THEN /\ last' = Forbidden("quiz_delete", user, quiz_id, NoInput)
         /\ UNCHANGED db
    ELSE LET gone == {q.id : q \in {q \in questions : q.quiz = quiz_id}}
             subs == {x.id : x \in {x \in submissions : x.quiz = quiz_id}}
         IN  /\ quizzes' = {z \in quizzes : z.id # quiz_id}
             /\ questions' = {q \in questions : q.id \notin gone}
             /\ choices' = {c \in choices : c.question \notin gone}
             /\ submissions' = {x \in submissions : x.id \notin subs}
             /\ answers' = {a \in answers : a.submission \notin subs
                                            /\ a.question \notin gone}
             /\ last' = Response("quiz_delete", user, quiz_id, NoInput, 204, "deleted", {})
             /\ UNCHANGED <<courses, packages, purchases, sections, subsections, calls>>

\* ------------------------------------------------------------- quiz authoring
\* QuizQuestionCreateSerializer.validate_choices, on a list of
\* {"text": ..., "is_correct": ...} entries.
\* The check of the correct flags asking for at least one.
validate_choices_some_correct(value) ==
    /\ ~(Len(value) = 0 \/ Len(value) < 2)
    /\ Cardinality({k \in 1..Len(value) : value[k].is_correct}) >= 1
    /\ \A k \in 1..Len(value) : value[k].text # ""

validate_choices(value) ==
    /\ ~(Len(value) = 0 \/ Len(value) < 2)
    /\ Cardinality({k \in 1..Len(value) : value[k].is_correct}) = 1
    /\ \A k \in 1..Len(value) : value[k].text # ""

\* quiz_add_question POST {"order": o, "choices": [...]}
QuizAddQuestion(user, quiz_id, data) ==
    IF ~teacher_or_admin_only(user)
    THEN /\ last' = Forbidden("quiz_add_question", user, quiz_id, data)
         /\ UNCHANGED db
    ELSE IF quiz_id \notin Ids(quizzes)
    THEN /\ last' = NotFound("quiz_add_question", user, quiz_id, data)
         /\ UNCHANGED db
    ELSE IF ~can_modify_course(user, Row(courses, Row(quizzes, quiz_id).course))
    THEN /\ last' = Forbidden("quiz_add_question", user, quiz_id, data)
         /\ UNCHANGED db
    ELSE IF ~validate_choices(data.choices)
    THEN /\ last' = Response("quiz_add_question", user, quiz_id, data, 400, "invalid", {})
         /\ UNCHANGED db
    ELSE IF \E q \in questions : q.quiz = quiz_id /\ q.order = data.order
    THEN \* unique_together ("quiz", "order"): the insert raises IntegrityError
         /\ last' = Response("quiz_add_question", user, quiz_id, data, 500,
                             "IntegrityError", {})
         /\ UNCHANGED db
    ELSE LET id == NextId(questions)
             first == NextId(choices)
         IN  /\ questions' = questions \cup
                    {[id |-> id, quiz |-> quiz_id, order |-> data.order]}
             /\ choices' = choices \cup
                    {[id |-> first + k - 1, question |-> id,
                      is_correct |-> data.choices[k].is_correct] :
                        k \in 1..Len(data.choices)}
             /\ last' = Response("quiz_add_question", user, quiz_id, data, 201,
                                 "created", {<<"quiz_admin", quiz_id>>})
             /\ UNCHANGED <<courses, packages, purchases, sections, subsections,
                            quizzes, submissions, answers, calls>>

\* ------------------------------------------------------------- serializers
\* What each serializer puts in the response body, field by field (texts,
\* titles and timestamps left out).
QuizChoiceSerializer(c) == [id |-> c.id]

QuizChoiceAdminSerializer(c) == [id |-> c.id, is_correct |-> c.is_correct]

QuizQuestionAdminSerializer(q) ==
    [id |-> q.id, order |-> q.order,
     choices |-> {QuizChoiceAdminSerializer(c) : c \in {c \in choices : c.question = q.id}}]

\* The student serializer nesting the admin choice serializer.
QuizQuestionWithFlags(q) ==
    [id |-> q.id, order |-> q.order,
     choices |-> {QuizChoiceAdminSerializer(c) : c \in {c \in choices : c.question = q.id}}]

QuizQuestionSerializer(q) ==
    [id |-> q.id, order |-> q.order,
     choices |-> {QuizChoiceSerializer(c) : c \in {c \in choices : c.question = q.id}}]

QuizSerializer(z) ==
    [id |-> z.id, course |-> z.course, is_published |-> z.is_published,
     questions |-> {QuizQuestionSerializer(q) : q \in {q \in questions : q.quiz = z.id}}]

QuizAdminSerializer(z) ==
    [id |-> z.id, course |-> z.course, is_published |-> z.is_published,
     questions |-> {QuizQuestionAdminSerializer(q) : q \in {q \in questions : q.quiz = z.id}}]

QuizSubmissionSerializer(sub) ==
    [id |-> sub.id, quiz |-> QuizSerializer(Row(quizzes, sub.quiz)),
     score |-> sub.score, total |-> sub.total]

\* The quiz documents of a response, those embedded in a submission included.
QuizDocuments(resp) ==
    {QuizSerializer(Row(quizzes, x[2])) : x \in {x \in resp.content : x[1] = "quiz"}}
    \cup {QuizAdminSerializer(Row(quizzes, x[2])) :
            x \in {x \in resp.content : x[1] = "quiz_admin"}}
    \cup {QuizSubmissionSerializer(Row(submissions, x[2])).quiz :
            x \in {x \in resp.content : x[1] = "submission"}}

\* ------------------------------------ quiz_add_question, one INSERT at a time
\* The view opens no transaction: the question row and each choice row are
\* committed one by one, and other requests run in between.
NewQuestionCall(user, quiz_id, data) ==
    [id |-> NextId(calls), user |-> user, pk |-> quiz_id, data |-> data,
     question |-> 0, stored |-> 0, pc |-> "question", status |-> 0, detail |-> ""]

\* The guards, the serializer and QuizQuestion.objects.create
QuestionBegin(user, quiz_id, data) ==
    LET c == NewQuestionCall(user, quiz_id, data)
        refused(resp) ==
            /\ last' = resp
            /\ calls' = calls \cup {[c EXCEPT !.pc = "done", !.status = resp.status,
                                               !.detail = resp.detail]}
            /\ UNCHANGED <<courses, packages, purchases, sections, subsections,
                           quizzes, quizdata>>
    IN  IF ~teacher_or_admin_only(user)
        THEN refused(Forbidden("quiz_add_question", user, quiz_id, data))
        ELSE IF quiz_id \notin Ids(quizzes)
        THEN refused(NotFound("quiz_add_question", user, quiz_id, data))
        ELSE IF ~can_modify_course(user, Row(courses, Row(quizzes, quiz_id).course))
        THEN refused(Forbidden("quiz_add_question", user, quiz_id, data))
        ELSE IF ~validate_choices(data.choices)
        THEN refused(Response("quiz_add_question", user, quiz_id, data, 400, "invalid", {}))
        ELSE IF \E q \in questions : q.quiz = quiz_id /\ q.order = data.order
        THEN refused(Response("quiz_add_question", user, quiz_id, data, 500,
                              "IntegrityError", {}))
        ELSE /\ questions' = questions \cup
                    {[id |-> NextId(questions), quiz |-> quiz_id, order |-> data.order]}
             /\ calls' = calls \cup {[c EXCEPT !.pc = "choices",
                                                !.question = NextId(questions)]}
             /\ UNCHANGED <<courses, packages, purchases, sections, subsections,
                            quizzes, choices, submissions, answers, last>>

\* One pass of the loop: QuizChoice.objects.create for the next choice.
ChoiceCreate(id) ==
    LET c == CHOOSE x \in calls : x.id = id
        k == c.stored + 1
    IN  /\ c.pc = "choices"
        /\ choices' = choices \cup
                {[id |-> NextId(choices), question |-> c.question,
                  is_correct |-> c.data.choices[k].is_correct]}
        /\ calls' = {x \in calls : x.id # id} \cup
                {[c EXCEPT !.stored = k,
                           !.pc = IF k = Len(c.data.choices) THEN "respond" ELSE "choices"]}
        /\ UNCHANGED <<courses, packages, purchases, sections, subsections,
                       quizzes, questions, submissions, answers, last>>

\* The loop is cut short (an INSERT raises, the worker dies): the rows
\* committed so far stay.
QuestionInterrupt(id) ==
    LET c == CHOOSE x \in calls : x.id = id IN
    /\ c.pc = "choices"
    /\ last' = Response("quiz_add_question", c.user, c.pk, c.data, 500, "interrupted", {})
    /\ calls' = {x \in calls : x.id # id} \cup
            {[c EXCEPT !.pc = "done", !.status = 500, !.detail = "interrupted"]}
    /\ UNCHANGED <<courses, packages, purchases, sections, subsections,
                   quizzes, quizdata>>

\* The 201 response with the quiz serialized.
QuestionRespond(id) ==
    LET c == CHOOSE x \in calls : x.id = id IN
    /\ c.pc = "respond"
    /\ last' = Response("quiz_add_question", c.user, c.pk, c.data, 201, "created",
                        {<<"quiz_admin", c.pk>>})
    /\ calls' = {x \in calls : x.id # id} \cup
            {[c EXCEPT !.pc = "done", !.status = 201, !.detail = "created"]}
    /\ UNCHANGED <<courses, packages, purchases, sections, subsections,
                   quizzes, quizdata>>

\* ----------------------------------------------------- submission and grading
\* answers.get(str(q.id)) or answers.get(q.id): the value sent for the
\* question, None when the key is missing or the value is falsy.
selected_choice_id(answers_map, q) ==
    IF q.id \in DOMAIN answers_map /\ answers_map[q.id] # 0
    THEN Some(answers_map[q.id])
    ELSE None

\* The lookup without its question filter.
selected_choice_any_question(answers_map, q) ==
    LET sel == selected_choice_id(answers_map, q) IN
    IF sel # None /\ \E c \in choices : c.id = sel[1]
    THEN sel[1]
    ELSE Null

\* QuizChoice.objects.filter(id=selected_choice_id, question=q).first()
selected_choice(answers_map, q) ==
    LET sel == selected_choice_id(answers_map, q) IN
    IF sel # None /\ \E c \in choices : c.id = sel[1] /\ c.question = q.id
    THEN sel[1]
    ELSE Null

\* next((c for c in q.choices.all() if c.is_correct), None)
correct_choice(q) ==
    LET correct == {c.id : c \in {c \in choices : c.question = q.id /\ c.is_correct}}
    IN  IF correct = {} THEN Null
        ELSE CHOOSE c \in correct : \A x \in correct : c <= x

\* Any resolved selection counted as correct.
answer_is_selected(answers_map, q) == selected_choice(answers_map, q) # Null

answer_is_correct(answers_map, q) ==
    /\ selected_choice(answers_map, q) # Null
    /\ correct_choice(q) # Null
    /\ selected_choice(answers_map, q) = correct_choice(q)

\* list(quiz.questions.all()): the quiz's questions, in Meta.ordering ["order"].
QuestionList(quiz_id) ==
    LET qs == {q \in questions : q.quiz = quiz_id}
    IN  [k \in 1..Cardinality(qs) |->
            CHOOSE q \in qs : Cardinality({x \in qs : x.order < q.order}) = k - 1]

\* Truncation to the hundredth below.
round2_truncated(score, total) == (score * 10000) \div total

\* round(x, 2) of x = score / total * 100, in hundredths: the nearest
\* hundredth, a tie going to the even one (Python's float result for every
\* total below 160).
round2(score, total) ==
    LET n == score * 10000
        q == n \div total
        r == n % total
    IN  IF 2 * r < total THEN q
        ELSE IF 2 * r > total THEN q + 1
        ELSE IF q % 2 = 0 THEN q ELSE q + 1

\* An empty quiz reported as full marks.
percent_empty_is_full(score, total) ==
    IF total > 0 THEN round2(score, total) ELSE 10000

\* percent, in hundredths of a percent point.
percent(score, total) == IF total > 0 THEN round2(score, total) ELSE 0

\* The per_question entry of the response.
per_question(answers_map, q) ==
    [question_id |-> q.id,
     selected_choice_id |-> selected_choice(answers_map, q),
     correct_choice_id |-> correct_choice(q),
     is_correct |-> answer_is_correct(answers_map, q)]

\* Rows only for the questions the answers map mentions.
answer_rows_mentioned_only(submission_id, answers_map, list) ==
    {[id |-> NextId(answers) + k - 1, submission |-> submission_id,
      question |-> list[k].id,
      selected_choice |-> selected_choice(answers_map, list[k]),
      is_correct |-> answer_is_correct(answers_map, list[k])] :
        k \in {j \in 1..Len(list) : list[j].id \in DOMAIN answers_map}}

\* QuizAnswer.objects.create for every question of the list, in its order.
answer_rows(submission_id, answers_map, list) ==
    {[id |-> NextId(answers) + k - 1, submission |-> submission_id,
      question |-> list[k].id,
      selected_choice |-> selected_choice(answers_map, list[k]),
      is_correct |-> answer_is_correct(answers_map, list[k])] :
        k \in 1..Len(list)}

\* update_or_create on (quiz, student): the attempt replaces the earlier one.
replace_submission(row) ==
    {x \in submissions : ~(x.quiz = row.quiz /\ x.student = row.student)} \cup {row}

\* QuizSubmission.objects.create, with the score and total of the final save.
create_submission(row) == submissions \cup {row}

\* The lookup without the publication of the course.
quiz_available_ignoring_course(quiz_id) ==
    \E z \in quizzes : z.id = quiz_id /\ z.is_published

\* Quiz.objects.get(pk=quiz_id, is_published=True, course__is_published=True)
quiz_available(quiz_id) ==
    \E z \in quizzes : /\ z.id = quiz_id /\ z.is_published
                        /\ Row(courses, z.course).is_published

\* A check that only asks for some body.
is_present(data) == DOMAIN data # {}

\* isinstance(answers, dict): a body holds the field "answers" when the value
\* sent under "answers" is a JSON object.
is_mapping(data) == Has(data, "answers")

\* request.data.get("answers")
answers_of(data) == IF Has(data, "answers") THEN data.answers ELSE <<>>

\* quiz_submit POST
QuizSubmit(user, quiz_id, data) ==
    IF ~student_only(user)
    THEN /\ last' = Forbidden("quiz_submit", user, quiz_id, data)
         /\ UNCHANGED db
    ELSE IF ~quiz_available(quiz_id)
    THEN /\ last' = NotFound("quiz_submit", user, quiz_id, data)
         /\ UNCHANGED db
    ELSE IF ~student_has_course_access(user, Row(courses, Row(quizzes, quiz_id).course))
    THEN /\ last' = NeedPackage("quiz_submit", user, quiz_id, data)
         /\ UNCHANGED db
    ELSE IF ~is_mapping(data)
    THEN /\ last' = Response("quiz_submit", user, quiz_id, data, 400,
                             "answers must be an object", {})
         /\ UNCHANGED db
    ELSE LET list == QuestionList(quiz_id)
             total == Len(list)
             id == NextId(submissions)
             score == Cardinality({k \in 1..total :
                                      answer_is_correct(answers_of(data), list[k])})
         IN  /\ submissions' = create_submission(
                    [id |-> id, quiz |-> quiz_id, student |-> user,
                     score |-> score, total |-> total])
             /\ answers' = answers \cup answer_rows(id, answers_of(data), list)
             /\ last' = [op |-> "quiz_submit", user |-> user, pk |-> quiz_id,
                         input |-> data, status |-> 200, detail |-> "ok",
                         content |-> {<<"submission", id>>},
                         score |-> score, total |-> total,
                         percent |-> percent(score, total),
                         results |-> [k \in 1..total |->
                                        per_question(answers_of(data), list[k])]]
             /\ UNCHANGED <<courses, packages, purchases, sections, subsections,
                            quizzes, questions, choices, calls>>

\* ------------------------------------------- quiz_submit, one write at a time
\* The view opens no transaction: the submission row, each answer row and
\* the final score are committed one by one.
NewSubmitCall(user, quiz_id, data) ==
    [id |-> NextId(calls), user |-> user, pk |-> quiz_id, data |-> data,
     list |-> <<>>, correct |-> <<>>, submission |-> Null, stored |-> 0, score |-> 0,
     results |-> <<>>, pc |-> "answers", status |-> 0, detail |-> ""]

\* A row created without its total, left to the final save.
submission_without_total(id, quiz_id, user, total) ==
    [id |-> id, quiz |-> quiz_id, student |-> user, score |-> 0, total |-> 0]

\* QuizSubmission.objects.create(quiz=quiz, student=request.user,
\*                               total=total, score=0)
new_submission(id, quiz_id, user, total) ==
    [id |-> id, quiz |-> quiz_id, student |-> user, score |-> 0, total |-> total]

\* The checks, the question list with its prefetched choices, and the
\* creation of the submission row.
SubmitBegin(user, quiz_id, data) ==
    LET c == NewSubmitCall(user, quiz_id, data)
        refused(resp) ==
            /\ last' = resp
            /\ calls' = calls \cup {[c EXCEPT !.pc = "done", !.status = resp.status,
                                               !.detail = resp.detail]}
            /\ UNCHANGED <<courses, packages, purchases, sections, subsections,
                           quizzes, quizdata>>
    IN  IF ~student_only(user)
        THEN refused(Forbidden("quiz_submit", user, quiz_id, data))
        ELSE IF ~quiz_available(quiz_id)
        THEN refused(NotFound("quiz_submit", user, quiz_id, data))
        ELSE IF ~student_has_course_access(user, Row(courses, Row(quizzes, quiz_id).course))
        THEN refused(NeedPackage("quiz_submit", user, quiz_id, data))
        ELSE IF ~is_mapping(data)
        THEN refused(Response("quiz_submit", user, quiz_id, data, 400,
                              "answers must be an object", {}))
        ELSE LET list == QuestionList(quiz_id)
                 id == NextId(submissions)
             IN  /\ submissions' = submissions \cup
                        {new_submission(id, quiz_id, user, Len(list))}
                 /\ calls' = calls \cup
                        {[c EXCEPT !.list = list,
                                   !.correct = [k \in 1..Len(list) |-> correct_choice(list[k])],
                                   !.submission = id,
                                   !.pc = IF Len(list) = 0 THEN "save" ELSE "answers"]}
                 /\ UNCHANGED <<courses, packages, purchases, sections, subsections,
                                quizzes, questions, choices, answers, last>>

\* One pass of the loop: the selected choice is looked up, the question is
\* graded against its prefetched correct choice, the QuizAnswer is created.
AnswerCreate(id) ==
    LET c == Call(id)
        k == c.stored + 1
        q == c.list[k]
        selected == selected_choice(answers_of(c.data), q)
        is_correct == selected # Null /\ c.correct[k] # Null /\ selected = c.correct[k]
    IN  /\ c.pc = "answers"
        /\ answers' = answers \cup
                {[id |-> NextId(answers), submission |-> c.submission, question |-> q.id,
                  selected_choice |-> selected, is_correct |-> is_correct]}
        /\ calls' = SetCall(
                [c EXCEPT !.stored = k,
                          !.score = IF is_correct THEN @ + 1 ELSE @,
                          !.results = Append(@, [question_id |-> q.id,
                                                 selected_choice_id |-> selected,
                                                 correct_choice_id |-> c.correct[k],
                                                 is_correct |-> is_correct]),
                          !.pc = IF k = Len(c.list) THEN "save" ELSE "answers"])
        /\ UNCHANGED <<courses, packages, purchases, sections, subsections,
                       quizzes, questions, choices, submissions, last>>

\* The grading is cut short (a statement raises, the worker dies): the rows
\* committed so far stay.
SubmitInterrupt(id) ==
    LET c == Call(id) IN
    /\ c.pc \in {"answers", "save"}
    /\ last' = Response("quiz_submit", c.user, c.pk, c.data, 500, "interrupted", {})
    /\ calls' = SetCall([c EXCEPT !.pc = "done", !.status = 500, !.detail = "interrupted"])
    /\ UNCHANGED <<courses, packages, purchases, sections, subsections,
                   quizzes, quizdata>>

\* submission.save(update_fields=["score", "total"]) and the response.
SubmitSave(id) ==
    LET c == Call(id)
        total == Len(c.list)
    IN  /\ c.pc = "save"
        /\ submissions' = Replace(submissions,
                [Row(submissions, c.submission) EXCEPT !.score = c.score, !.total = total])
        /\ last' = [op |-> "quiz_submit", user |-> c.user, pk |-> c.pk,
                    input |-> c.data, status |-> 200, detail |-> "ok",
                    content |-> {<<"submission", c.submission>>},
                    score |-> c.score, total |-> total,
                    percent |-> percent(c.score, total),
                    results |-> c.results]
        /\ calls' = SetCall([c EXCEPT !.pc = "done", !.status = 200, !.detail = "ok"])
        /\ UNCHANGED <<courses, packages, purchases, sections, subsections,
                       quizzes, questions, choices, answers>>

\* student_quiz_submissions GET: the caller's own submissions.
StudentQuizSubmissions(user) ==
    /\ UNCHANGED db
    /\ last' =
        IF ~student_only(user)
        THEN Forbidden("student_quiz_submissions", user, 0, NoInput)
        ELSE Response("student_quiz_submissions", user, 0, NoInput, 200, "ok",
                      {<<"submission", sub.id>> : sub \in {x \in submissions : x.student = user}})

\* A video lecture for section s.
VideoBody(s) == [section |-> s, content_type |-> "video", video_url |-> Some("url")]

\* -------------------------------------------------------- choice deletion
\* on_delete=CASCADE on the reference: the answers go with the choice.
CASCADE(choice_id) == {a \in answers : a.selected_choice # choice_id}

\* QuizAnswer.selected_choice, on_delete=SET_NULL: the answers that selected
\* the choice stay, with a null reference.
SET_NULL(choice_id) ==
    {IF a.selected_choice = choice_id THEN [a EXCEPT !.selected_choice = Null] ELSE a :
        a \in answers}

\* QuizChoice has no endpoint of its own: a choice is deleted by a
\* storage-level delete of the row, under the on_delete rules of its
\* referrers.
ChoiceDelete(id) ==
    /\ id \in Ids(choices)
    /\ choices' = {c \in choices : c.id # id}
    /\ answers' = SET_NULL(id)
    /\ last' = Response("choice_delete", 0, id, NoInput, 0, "orm", {})
    /\ UNCHANGED <<courses, packages, purchases, sections, subsections, quizzes,
                   questions, submissions, calls>>

\* teacher_quiz_submissions GET: the submissions of the quiz.
TeacherQuizSubmissions(user, quiz_id) ==
    /\ UNCHANGED db
    /\ last' =
        IF ~teacher_or_admin_only(user)
        THEN Forbidden("teacher_quiz_submissions", user, quiz_id, NoInput)
        ELSE IF quiz_id \notin Ids(quizzes)
        THEN NotFound("teacher_quiz_submissions", user, quiz_id, NoInput)
        ELSE IF ~can_modify_course(user, Row(courses, Row(quizzes, quiz_id).course))
        THEN Forbidden("teacher_quiz_submissions", user, quiz_id, NoInput)
        ELSE Response("teacher_quiz_submissions", user, quiz_id, NoInput, 200, "ok",
                      {<<"submission_row", sub.id>> :
                            sub \in {x \in submissions : x.quiz = quiz_id}})

\* ===================================================== the entitlement model
\* The empty database.
Empty ==
    /\ courses = {} /\ packages = {} /\ purchases = {}
    /\ sections = {} /\ subsections = {} /\ quizzes = {}
    /\ questions = {} /\ choices = {} /\ submissions = {} /\ answers = {}
    /\ calls = {}
    /\ last = Response("init", 0, 0, NoInput, 0, "init", {})

CourseIds == 1..NCourses

PackageIds == 1..MaxPackages

\* Bodies an admin sends for a package: free at price 0, or paid at price 1,
\* published or not, with any set of course ids.
PackageBodies ==
    {[is_published |-> pb, is_free |-> fr, price |-> IF fr THEN 0 ELSE 1,
      course_ids |-> cs] : pb \in BOOLEAN, fr \in BOOLEAN, cs \in SUBSET CourseIds}

\* Partial bodies of a PATCH: the publication flag and the pricing, without
\* or with a new course set.
PackagePatchBodies ==
    {[is_published |-> pb, is_free |-> fr, price |-> IF fr THEN 0 ELSE 1] :
        pb \in BOOLEAN, fr \in BOOLEAN}
    \cup PackageBodies

InitAccess == Empty

NextAccess ==
    \/ /\ Cardinality(courses) < NCourses
       /\ \E u \in Admins, b \in BOOLEAN : CourseCreate(u, b, {})
    \/ \E u \in Admins, pk \in Ids(courses), b \in BOOLEAN : CoursePatch(u, pk, b)
    \/ /\ Cardinality(packages) < MaxPackages
       /\ \E u \in Admins, data \in PackageBodies : PackageCreate(u, data)
    \/ \E u \in Admins, pk \in Ids(packages), data \in PackagePatchBodies :
        PackagePatch(u, pk, data)
    \/ /\ Cardinality(purchases) < MaxPurchases
       /\ \E u \in Students, pk \in PackageIds : PurchasePackage(u, pk)
    \/ \E id \in Ids(purchases), st \in PurchaseStatuses : SetPurchaseStatus(id, st)
    \/ \E u \in Students, pk \in CourseIds : StudentCourseDetail(u, pk)

SpecAccess == InitAccess /\ [][NextAccess]_vars

\* ====================================================== the content gates
\* The four student content reads, over a catalogue with one section,
\* sub-section and quiz.
InitGate == Empty

NextGate ==
    \/ /\ Cardinality(courses) < NCourses
       /\ \E u \in Admins, b \in BOOLEAN : CourseCreate(u, b, {})
    \/ \E u \in Admins, pk \in Ids(courses), b \in BOOLEAN : CoursePatch(u, pk, b)
    \/ /\ Cardinality(packages) < GatePackages
       /\ \E u \in Admins, data \in PackageBodies : PackageCreate(u, data)
    \/ \E u \in Admins, pk \in Ids(packages), data \in PackagePatchBodies :
        PackagePatch(u, pk, data)
    \/ /\ Cardinality(purchases) < GatePurchases
       /\ \E u \in Students, pk \in Ids(packages) : PurchasePackage(u, pk)
    \/ \E id \in Ids(purchases), st \in PurchaseStatuses : SetPurchaseStatus(id, st)
    \/ /\ Cardinality(sections) < MaxSections
       /\ \E u \in Admins, c \in Ids(courses) : SectionCreate(u, [course |-> c])
    \/ /\ Cardinality(subsections) < MaxSubSections
       /\ \E u \in Admins, x \in Ids(sections) : SubSectionCreate(u, VideoBody(x))
    \/ /\ Cardinality(quizzes) < MaxQuizzes
       /\ \E u \in Admins, c \in Ids(courses), b \in BOOLEAN : QuizCreate(u, c, [is_published |-> b])
    \/ \E u \in Admins, q \in Ids(quizzes), b \in BOOLEAN :
        QuizPatch(u, q, [is_published |-> b])
    \/ \E u \in Students, pk \in Ids(courses) : StudentCourseDetail(u, pk)
    \/ \E u \in Students, pk \in Ids(subsections) : StudentSubSectionDetail(u, pk)
    \/ \E u \in Students, pk \in Ids(quizzes) : QuizDetail(u, pk)
    \/ \E u \in Students, pk \in Ids(courses) : QuizList(u, pk)

SpecGate == InitGate /\ [][NextGate]_vars

\* ============================================================ the quiz engine
\* One published course taught by teacher 11, sold in one published package
\* that student 1 has bought; student 2 has bought nothing.
Enrolled ==
    /\ courses = {[id |-> 1, is_published |-> TRUE, created_by |-> 21,
                   assigned_teachers |-> {11}]}
    /\ packages = {[id |-> 1, is_published |-> TRUE, is_free |-> FALSE, price |-> 1,
                    discounted_price |-> None, courses |-> {1}]}
    /\ purchases = {[id |-> 1, student |-> 1, package |-> 1, status |-> "active"]}
    /\ sections = {} /\ subsections = {}
    /\ submissions = {} /\ answers = {}
    /\ calls = {}
    /\ last = Response("init", 0, 0, NoInput, 0, "init", {})

\* Two choices with text, the k-th one flagged correct.
TwoChoices(k) ==
    [j \in 1..2 |-> [text |-> IF j = 1 THEN "A" ELSE "B", is_correct |-> (j = k)]]

QuestionBodies(n) ==
    {[order |-> o, choices |-> TwoChoices(k)] : o \in 1..n, k \in 1..2}

\* The values a client may send for a question: 0, the id of any stored
\* choice, and an id no choice has.
AnswerValues == 0..NextId(choices)

AnswerMaps == UNION {[D -> AnswerValues] : D \in SUBSET Ids(questions)}

\* {"answers": {...}}, and a body whose "answers" is a list.
SubmitBodies == {[answers |-> m] : m \in AnswerMaps} \cup {[answers_list |-> <<>>]}

InitQuiz == Enrolled /\ quizzes = {} /\ questions = {} /\ choices = {}

NextQuiz ==
    \/ /\ Cardinality(quizzes) < MaxQuizzes
       /\ \E u \in Teachers, b \in BOOLEAN : QuizCreate(u, 1, [is_published |-> b])
    \/ \E u \in Teachers, z \in Ids(quizzes), b \in BOOLEAN :
        QuizPatch(u, z, [is_published |-> b])
    \/ /\ Cardinality(questions) < MaxQuestions
       /\ \E u \in Teachers, z \in Ids(quizzes), data \in QuestionBodies(MaxQuestions) : QuizAddQuestion(u, z, data)
    \/ /\ Cardinality(submissions) < MaxSubmissions
       /\ \E u \in Students, z \in Ids(quizzes), data \in SubmitBodies : QuizSubmit(u, z, data)

SpecQuiz == InitQuiz /\ [][NextQuiz]_vars

\* ------------------------------------------------------------------- grading
\* A published quiz of n questions, as n add_question calls leave it: question
\* k has the choices 2k-1 and 2k, the order ord[k] and the correct choice
\* number pos[k].
AuthoredQuiz(n, ord, pos) ==
    /\ quizzes = {[id |-> 1, course |-> 1, is_published |-> TRUE]}
    /\ questions = {[id |-> k, quiz |-> 1, order |-> ord[k]] : k \in 1..n}
    /\ choices = {[id |-> 2 * (k - 1) + j, question |-> k, is_correct |-> (j = pos[k])] :
                    k \in 1..n, j \in 1..2}

Orders(n) == {ord \in [1..n -> 1..n] : \A a, b \in 1..n : a # b => ord[a] # ord[b]}

InitGrade ==
    /\ Enrolled
    /\ \E n \in 0..GradeQuestions : \E ord \in Orders(n) : \E pos \in [1..n -> 1..2] :
        AuthoredQuiz(n, ord, pos)

\* One request is graded per behaviour.
NextGrade ==
    /\ last.op = "init"
    /\ \E u \in Students, z \in Ids(quizzes), data \in SubmitBodies :
        QuizSubmit(u, z, data)

SpecGrade == InitGrade /\ [][NextGrade]_vars

\* ---------------------------------------------------------------- authoring
\* A choice as the client sends it: with or without text, flagged or not.
ChoiceEntries == {[text |-> t, is_correct |-> b] : t \in {"", "A"}, b \in BOOLEAN}

ChoiceLists == UNION {[1..n -> ChoiceEntries] : n \in 0..MaxChoices}

AuthorBodies ==
    {[order |-> o, choices |-> cl] : o \in 1..MaxQuestions, cl \in ChoiceLists}

\* The enrolled course with its quiz, holding no question or one.
InitAuthor ==
    /\ Enrolled
    /\ \E n \in 0..1 : \E ord \in Orders(n) : \E pos \in [1..n -> 1..2] :
        AuthoredQuiz(n, ord, pos)

\* One request is served per behaviour.
NextAuthor ==
    /\ last.op = "init"
    /\ \E u \in Users, z \in 1..(MaxQuizzes + 1), data \in AuthorBodies :
        QuizAddQuestion(u, z, data)

SpecAuthor == InitAuthor /\ [][NextAuthor]_vars

\* Authoring run INSERT by INSERT, with a student reading and submitting the
\* quiz in between.
InitAuthorSteps ==
    /\ Enrolled
    /\ quizzes = {[id |-> 1, course |-> 1, is_published |-> TRUE]}
    /\ questions = {} /\ choices = {}

NextAuthorSteps ==
    \/ /\ Cardinality(calls) < MaxQuestions
       /\ \E u \in Teachers, z \in Ids(quizzes), data \in QuestionBodies(MaxQuestions) :
            QuestionBegin(u, z, data)
    \/ \E id \in Ids(calls) : ChoiceCreate(id)
    \/ \E id \in Ids(calls) : QuestionInterrupt(id)
    \/ \E id \in Ids(calls) : QuestionRespond(id)
    \/ \E u \in Students, z \in Ids(quizzes) : QuizDetail(u, z)
    \/ /\ submissions = {}
       /\ \E z \in Ids(quizzes), data \in SubmitBodies : QuizSubmit(1, z, data)

SpecAuthorSteps == InitAuthorSteps /\ [][NextAuthorSteps]_vars

\* ------------------------------------------------------------ quiz reads
\* An authored quiz of one or two questions, read by every role and
\* submitted by the students.
InitReveal ==
    /\ Enrolled
    /\ \E n \in 1..MaxQuestions : \E ord \in Orders(n) : \E pos \in [1..n -> 1..2] :
        AuthoredQuiz(n, ord, pos)

NextReveal ==
    \/ \E u \in Users, z \in Ids(quizzes) : QuizDetail(u, z)
    \/ \E u \in Users, pk \in Ids(courses) : QuizList(u, pk)
    \/ \E u \in Users : StudentQuizSubmissions(u)
    \/ /\ Cardinality(submissions) < RevealSubmissions
       /\ \E u \in Users, z \in Ids(quizzes), data \in SubmitBodies : QuizSubmit(u, z, data)

SpecReveal == InitReveal /\ [][NextReveal]_vars

\* -------------------------------------------------- the checks of quiz_submit
\* Bodies whose "answers" is a list, a scalar, or missing.
MalformedBodies == {[answers_list |-> <<>>], [answers_scalar |-> 5], NoInput}

\* A course and its quiz, each published or not, with no question or one;
\* the course is sold in a published package that student 1 owns and that
\* student 2 has been refunded.
InitSubmitChecks ==
    /\ \E b \in BOOLEAN :
        courses = {[id |-> 1, is_published |-> b, created_by |-> 21,
                    assigned_teachers |-> {11}]}
    /\ packages = {[id |-> 1, is_published |-> TRUE, is_free |-> FALSE, price |-> 1,
                    discounted_price |-> None, courses |-> {1}]}
    /\ purchases = {[id |-> 1, student |-> 1, package |-> 1, status |-> "active"],
                    [id |-> 2, student |-> 2, package |-> 1, status |-> "refunded"]}
    /\ \E b \in BOOLEAN : quizzes = {[id |-> 1, course |-> 1, is_published |-> b]}
    /\ \E n \in 0..1 : \E pos \in 1..2 :
        /\ questions = {[id |-> k, quiz |-> 1, order |-> 1] : k \in 1..n}
        /\ choices = {[id |-> j, question |-> k, is_correct |-> (j = pos)] :
                        k \in 1..n, j \in 1..2}
    /\ sections = {} /\ subsections = {} /\ submissions = {} /\ answers = {}
    /\ calls = {}
    /\ last = Response("init", 0, 0, NoInput, 0, "init", {})

\* One request is served per behaviour.
NextSubmitChecks ==
    /\ last.op = "init"
    /\ \E u \in Users, z \in 1..(MaxQuizzes + 1), data \in SubmitBodies \cup MalformedBodies :
        QuizSubmit(u, z, data)

SpecSubmitChecks == InitSubmitChecks /\ [][NextSubmitChecks]_vars

\* ------------------------------------------------------------ course reads
\* A published course with a sub-section and a published quiz, sold in a
\* published package that student 1 owns; the admin publishes and unpublishes
\* the course, and every user reads.
InitVisible ==
    /\ Enrolled
    /\ quizzes = {[id |-> 1, course |-> 1, is_published |-> TRUE]}
    /\ questions = {} /\ choices = {}

NextVisible ==
    \/ \E u \in Admins, pk \in Ids(courses), b \in BOOLEAN : CoursePatch(u, pk, b)
    \/ /\ Cardinality(sections) < MaxSections
       /\ \E u \in Teachers, pk \in Ids(courses) : SectionCreate(u, [course |-> pk])
    \/ /\ Cardinality(subsections) < MaxSubSections
       /\ \E u \in Teachers, pk \in Ids(sections) : SubSectionCreate(u, VideoBody(pk))
    \/ \E u \in Users : CourseList(u)
    \/ \E u \in Users, pk \in Ids(courses) : CourseDetail(u, pk)
    \/ \E u \in Users : StudentCourseList(u)
    \/ \E u \in Users, pk \in Ids(courses) : StudentCourseDetail(u, pk)
    \/ \E u \in Users, pk \in Ids(subsections) : StudentSubSectionDetail(u, pk)
    \/ \E u \in Users, pk \in Ids(courses) : QuizList(u, pk)
    \/ \E u \in Users, pk \in Ids(quizzes) : QuizDetail(u, pk)

SpecVisible == InitVisible /\ [][NextVisible]_vars

\* ------------------------------------------------------- course ownership
\* A course made through the API, re-assigned on the Course admin page, and
\* every user trying to change it.
InitModify == Empty

NextModify ==
    \/ /\ Cardinality(courses) < NCourses
       /\ \E u \in Admins, b \in BOOLEAN, t \in SUBSET Teachers : CourseCreate(u, b, t)
    \/ \E pk \in Ids(courses), creator \in Users, assigned \in SUBSET Teachers :
        CourseAdminSave(pk, creator, assigned)
    \/ \E u \in Users, pk \in Ids(courses), b \in BOOLEAN : CoursePatch(u, pk, b)
    \/ /\ Cardinality(sections) < MaxSections
       /\ \E u \in Users, pk \in Ids(courses) : SectionCreate(u, [course |-> pk])
    \/ /\ Cardinality(quizzes) < MaxQuizzes
       /\ \E u \in Users, pk \in Ids(courses), b \in BOOLEAN :
            QuizCreate(u, pk, [is_published |-> b])

SpecModify == InitModify /\ [][NextModify]_vars

\* ------------------------------------------------------------------ pricing
\* Each pricing field is sent or not: <<>> is "not sent", <<v>> is "sent as v".
Sent(values) == {<<>>} \cup {<<v>> : v \in values}

\* The body holding the pricing fields that were sent.
PricingBody(f, p, d) ==
    [x \in {y \in {"is_free", "price", "discounted_price"} :
                \/ y = "is_free" /\ f # <<>>
                \/ y = "price" /\ p # <<>>
                \/ y = "discounted_price" /\ d # <<>>} |->
        IF x = "is_free" THEN f[1] ELSE IF x = "price" THEN p[1] ELSE d[1]]

\* Prices 0..MaxPrice; a discount is null or a positive amount.
PricingBodies ==
    {PricingBody(f, p, d) :
        f \in Sent(BOOLEAN), p \in Sent(0..MaxPrice),
        d \in Sent({None} \cup {Some(v) : v \in 1..MaxPrice})}

InitPricing == Empty

NextPricing ==
    \/ /\ Cardinality(packages) < GatePackages
       /\ \E u \in Admins, data \in PricingBodies : PackageCreate(u, data)
    \/ \E u \in Admins, pk \in Ids(packages), data \in PricingBodies :
        PackagePatch(u, pk, data)

SpecPricing == InitPricing /\ [][NextPricing]_vars

\* --------------------------------------------------- concurrent purchases
\* One published course in one published paid package, nobody owning it.
InitPurchase ==
    /\ courses = {[id |-> 1, is_published |-> TRUE, created_by |-> 21,
                   assigned_teachers |-> {11}]}
    /\ packages = {[id |-> 1, is_published |-> TRUE, is_free |-> FALSE, price |-> 1,
                    discounted_price |-> None, courses |-> {1}]}
    /\ purchases = {} /\ sections = {} /\ subsections = {} /\ quizzes = {}
    /\ questions = {} /\ choices = {} /\ submissions = {} /\ answers = {}
    /\ calls = {}
    /\ last = Response("init", 0, 0, NoInput, 0, "init", {})

NextPurchase ==
    \/ /\ Cardinality(calls) < MaxCalls
       /\ \E u \in Students \cup Teachers, pk \in PackageIds : PurchaseBegin(u, pk)
    \/ \E id \in Ids(calls) : PurchaseGet(id)
    \/ \E id \in Ids(calls) : PurchaseCreate(id)
    \/ \E id \in Ids(calls) : PurchaseRespond(id)

SpecPurchase == InitPurchase /\ [][NextPurchase]_vars

\* ------------------------------------------------------------ content order
\* The courses of teacher 11, without content.
InitOrder ==
    /\ courses = {[id |-> c, is_published |-> TRUE, created_by |-> 21,
                   assigned_teachers |-> {11}] : c \in CourseIds}
    /\ packages = {} /\ purchases = {} /\ sections = {} /\ subsections = {}
    /\ quizzes = {} /\ questions = {} /\ choices = {} /\ submissions = {}
    /\ answers = {} /\ calls = {}
    /\ last = Response("init", 0, 0, NoInput, 0, "init", {})

\* The orders a client sends: below the field's minimum, and 0..MaxOrder.
ClientOrders == -1..MaxOrder

\* A section body without an order, or with one.
SectionBodies ==
    {[course |-> c] : c \in CourseIds}
    \cup {[course |-> c, order |-> o] : c \in CourseIds, o \in ClientOrders}

\* A video lecture body without an order, or with one.
SubSectionBodies ==
    {VideoBody(s) : s \in Ids(sections)}
    \cup {set_order(VideoBody(s), o) : s \in Ids(sections), o \in ClientOrders}

NextOrder ==
    \/ /\ Cardinality(sections) < OrderSections
       /\ NextId(sections) <= OrderSections + 1
       /\ last_order(sections) <= MaxOrder
       /\ \E u \in Teachers, data \in SectionBodies : SectionCreate(u, data)
    \/ \E u \in Teachers, pk \in Ids(sections), data \in SectionBodies :
        SectionPut(u, pk, data)
    \/ \E u \in Teachers, pk \in Ids(sections) : SectionDelete(u, pk)
    \/ /\ Cardinality(subsections) < OrderSubSections
       /\ NextId(subsections) <= OrderSubSections + 1
       /\ last_order(subsections) <= MaxOrder
       /\ \E u \in Teachers, data \in SubSectionBodies : SubSectionCreate(u, data)
    \/ \E u \in Teachers, pk \in Ids(subsections), data \in SubSectionBodies :
        SubSectionPut(u, pk, data)
    \/ \E u \in Teachers, pk \in Ids(subsections) : SubSectionDelete(u, pk)

SpecOrder == InitOrder /\ [][NextOrder]_vars

\* ------------------------------------------------- concurrent content creates
\* Creates of sections and of sub-sections run query by query, up to
\* MaxCalls of each at a time.
NextOrderRace ==
    \/ /\ Cardinality({c \in calls : c.op = "section_create"}) < MaxCalls
       /\ \E u \in Teachers, course_id \in CourseIds : SectionBegin(u, [course |-> course_id])
    \/ \E id \in Ids(calls) : SectionValidate(id)
    \/ \E id \in Ids(calls) : SectionSave(id)
    \/ /\ Cardinality({c \in calls : c.op = "subsection_create"}) < MaxCalls
       /\ \E u \in Teachers, section_id \in Ids(sections) :
            SubSectionBegin(u, VideoBody(section_id))
    \/ \E id \in Ids(calls) : SubSectionValidate(id)
    \/ \E id \in Ids(calls) : SubSectionSave(id)

SpecOrderRace == InitOrder /\ [][NextOrderRace]_vars

\* ------------------------------------------------------- lecture content
\* The course of teacher 11 with one section.
InitContent ==
    /\ courses = {[id |-> 1, is_published |-> TRUE, created_by |-> 21,
                   assigned_teachers |-> {11}]}
    /\ sections = {[id |-> 1, course |-> 1, order |-> 1]}
    /\ packages = {} /\ purchases = {} /\ subsections = {}
    /\ quizzes = {} /\ questions = {} /\ choices = {} /\ submissions = {}
    /\ answers = {} /\ calls = {}
    /\ last = Response("init", 0, 0, NoInput, 0, "init", {})

\* The body holding the content fields that were sent.
ContentBody(t, v, f) ==
    [x \in {"section"} \cup {y \in {"content_type", "video_url", "pdf_file"} :
                \/ y = "content_type" /\ t # <<>>
                \/ y = "video_url" /\ v # <<>>
                \/ y = "pdf_file" /\ f # <<>>} |->
        IF x = "section" THEN 1
        ELSE IF x = "content_type" THEN t[1]
        ELSE IF x = "video_url" THEN v[1] ELSE f[1]]

\* content_type is one of the two choices, another word, or not sent; each
\* of video_url and pdf_file is not sent, sent as null, or sent with a value.
ContentBodies ==
    {ContentBody(t, v, f) :
        t \in Sent(CONTENT_CHOICES \cup {"audio"}),
        v \in Sent({None, Some("url")}),
        f \in Sent({None, Some("file")})}

NextContent ==
    \/ /\ Cardinality(subsections) < MaxSubSections
       /\ \E u \in Teachers, data \in ContentBodies : SubSectionCreate(u, data)
    \/ \E u \in Teachers, pk \in Ids(subsections), data \in ContentBodies :
        SubSectionPut(u, pk, data)

SpecContent == InitContent /\ [][NextContent]_vars

\* ------------------------------------------------------- hidden content
\* A course with a sub-section and a quiz, course and quiz each published or
\* not, sold in a published package that student 1 bought (the purchase
\* active or refunded).
InitHidden ==
    /\ \E b \in BOOLEAN :
        courses = {[id |-> 1, is_published |-> b, created_by |-> 21,
                    assigned_teachers |-> {11}]}
    /\ packages = {[id |-> 1, is_published |-> TRUE, is_free |-> FALSE, price |-> 1,
                    discounted_price |-> None, courses |-> {1}]}
    /\ \E st \in PurchaseStatuses :
        purchases = {[id |-> 1, student |-> 1, package |-> 1, status |-> st]}
    /\ sections = {[id |-> 1, course |-> 1, order |-> 1]}
    /\ subsections = {SubSectionRow(1, set_order(VideoBody(1), 1))}
    /\ \E b \in BOOLEAN : quizzes = {[id |-> 1, course |-> 1, is_published |-> b]}
    /\ questions = {} /\ choices = {} /\ submissions = {} /\ answers = {}
    /\ calls = {}
    /\ last = Response("init", 0, 0, NoInput, 0, "init", {})

\* The keys a student asks for: the stored row's, and one that no row has.
AskedIds == 1..2

\* One read is served per behaviour.
NextHidden ==
    /\ last.op = "init"
    /\ \/ \E u \in Students, pk \in AskedIds : StudentCourseDetail(u, pk)
       \/ \E u \in Students, pk \in AskedIds : StudentSubSectionDetail(u, pk)
       \/ \E u \in Students, pk \in AskedIds : QuizDetail(u, pk)
       \/ \E u \in Students, pk \in AskedIds, data \in SubmitBodies : QuizSubmit(u, pk, data)

SpecHidden == InitHidden /\ [][NextHidden]_vars

\* ---------------------------------------------------------------- denials
\* A course with a section and a quiz; teacher 11 is assigned to it or not.
InitDenied ==
    /\ \E t \in SUBSET Teachers :
        courses = {[id |-> 1, is_published |-> TRUE, created_by |-> 21,
                    assigned_teachers |-> t]}
    /\ packages = {} /\ purchases = {}
    /\ sections = {[id |-> 1, course |-> 1, order |-> 1]}
    /\ subsections = {}
    /\ quizzes = {[id |-> 1, course |-> 1, is_published |-> TRUE]}
    /\ questions = {} /\ choices = {} /\ submissions = {} /\ answers = {}
    /\ calls = {}
    /\ last = Response("init", 0, 0, NoInput, 0, "init", {})

\* One request is served per behaviour, for a stored row or a missing one.
NextDenied ==
    /\ last.op = "init"
    /\ \/ \E u \in Users, pk \in AskedIds : QuizDetail(u, pk)
       \/ \E u \in Users, pk \in AskedIds, b \in BOOLEAN :
            QuizPatch(u, pk, [is_published |-> b])
       \/ \E u \in Users, pk \in AskedIds : TeacherQuizSubmissions(u, pk)
       \/ \E u \in Users, pk \in AskedIds : SectionDetail(u, pk)
       \/ \E u \in Users, pk \in AskedIds : CourseDetail(u, pk)
       \/ \E u \in Users, pk \in AskedIds, b \in BOOLEAN : CoursePatch(u, pk, b)

SpecDenied == InitDenied /\ [][NextDenied]_vars

\* ------------------------------------------------------- graded attempts
\* The enrolled student submits a quiz of one question twice, while the
\* teacher adds questions and choices are deleted.
InitFrozen ==
    /\ Enrolled
    /\ \E pos \in [1..1 -> 1..2] : AuthoredQuiz(1, [k \in 1..1 |-> 1], pos)

NextFrozen ==
    \/ /\ Cardinality(submissions) < MaxSubmissions
       /\ \E z \in Ids(quizzes), data \in SubmitBodies : QuizSubmit(1, z, data)
    \/ /\ Cardinality(questions) < MaxQuestions
       /\ NextId(choices) <= 2 * MaxQuestions
       /\ \E u \in Teachers, z \in Ids(quizzes), data \in QuestionBodies(MaxQuestions) :
            QuizAddQuestion(u, z, data)
    \/ \E id \in Ids(choices) : ChoiceDelete(id)

SpecFrozen == InitFrozen /\ [][NextFrozen]_vars

\* ------------------------------------------------- grading, write by write
\* A quiz of up to MaxQuestions questions, submitted by the students write
\* by write.
InitSubmitSteps ==
    /\ Enrolled
    /\ \E n \in 0..MaxQuestions : \E ord \in Orders(n) : \E pos \in [1..n -> 1..2] :
        AuthoredQuiz(n, ord, pos)

NextSubmitSteps ==
    \/ /\ Cardinality(calls) < GradingCalls
       /\ \E u \in Students, z \in Ids(quizzes), data \in SubmitBodies :
            SubmitBegin(u, z, data)
    \/ \E id \in Ids(calls) : AnswerCreate(id)
    \/ \E id \in Ids(calls) : SubmitInterrupt(id)
    \/ \E id \in Ids(calls) : SubmitSave(id)

SpecSubmitSteps == InitSubmitSteps /\ [][NextSubmitSteps]_vars

\* ---------------------------------------------------------------- refusals
\* A course, published or not, with a section, a sub-section and a quiz of
\* one question, sold in a published package; teacher 11 is assigned to the
\* course or not.
InitRefused ==
    /\ \E b \in BOOLEAN : \E t \in SUBSET Teachers :
        courses = {[id |-> 1, is_published |-> b, created_by |-> 21,
                    assigned_teachers |-> t]}
    /\ packages = {[id |-> 1, is_published |-> TRUE, is_free |-> FALSE, price |-> 1,
                    discounted_price |-> None, courses |-> {1}]}
    /\ purchases = {[id |-> 1, student |-> 1, package |-> 1, status |-> "active"]}
    /\ sections = {[id |-> 1, course |-> 1, order |-> 1]}
    /\ subsections = {SubSectionRow(1, set_order(VideoBody(1), 1))}
    /\ AuthoredQuiz(1, [k \in 1..1 |-> 1], [k \in 1..1 |-> 1])
    /\ submissions = {} /\ answers = {} /\ calls = {}
    /\ last = Response("init", 0, 0, NoInput, 0, "init", {})

\* One request is served per behaviour: every write, by every user.
NextRefused ==
    /\ last.op = "init"
    /\ \/ \E u \in Users, data \in SectionBodies : SectionCreate(u, data)
       \/ \E u \in Users, pk \in AskedIds, data \in SectionBodies : SectionPut(u, pk, data)
       \/ \E u \in Users, pk \in AskedIds : SectionDelete(u, pk)
       \/ \E u \in Users, data \in SubSectionBodies : SubSectionCreate(u, data)
       \/ \E u \in Users, pk \in AskedIds, data \in SubSectionBodies :
            SubSectionPut(u, pk, data)
       \/ \E u \in Users, pk \in AskedIds : SubSectionDelete(u, pk)
       \/ \E u \in Users, pk \in AskedIds, b \in BOOLEAN : CoursePatch(u, pk, b)
       \/ \E u \in Users, pk \in AskedIds, b \in BOOLEAN :
            QuizCreate(u, pk, [is_published |-> b])
       \/ \E u \in Users, pk \in AskedIds, b \in BOOLEAN :
            QuizPatch(u, pk, [is_published |-> b])
       \/ \E u \in Users, pk \in AskedIds : QuizDelete(u, pk)
       \/ \E u \in Users, pk \in AskedIds, data \in QuestionBodies(MaxQuestions) :
            QuizAddQuestion(u, pk, data)
       \/ \E u \in Users, pk \in AskedIds, data \in SubmitBodies : QuizSubmit(u, pk, data)
       \/ \E u \in Users, pk \in AskedIds : PurchasePackage(u, pk)

SpecRefused == InitRefused /\ [][NextRefused]_vars

\* --------------------------------------------------------------- catalogue
\* A course and a package, each published or not, the package free or paid
\* and holding the course or not; student 1 has no purchase of it, an active
\* one or a refunded one.
InitCatalogue ==
    /\ \E b \in BOOLEAN :
        courses = {[id |-> 1, is_published |-> b, created_by |-> 21,
                    assigned_teachers |-> {11}]}
    /\ \E b \in BOOLEAN, f \in BOOLEAN, cs \in SUBSET {1} :
        packages = {[id |-> 1, is_published |-> b, is_free |-> f,
                     price |-> IF f THEN 0 ELSE 1, discounted_price |-> None,
                     courses |-> cs]}
    /\ \E ps \in SUBSET PurchaseStatuses :
        /\ Cardinality(ps) <= 1
        /\ purchases = {[id |-> 1, student |-> 1, package |-> 1, status |-> st] : st \in ps}
    /\ sections = {} /\ subsections = {}
    /\ quizzes = {[id |-> 1, course |-> 1, is_published |-> TRUE]}
    /\ questions = {} /\ choices = {} /\ submissions = {} /\ answers = {}
    /\ calls = {}
    /\ last = Response("init", 0, 0, NoInput, 0, "init", {})

\* One read is served per behaviour.
NextCatalogue ==
    /\ last.op = "init"
    /\ \/ \E u \in Students : StudentCourseList(u)
       \/ \E u \in Students, pk \in Ids(courses) : StudentCourseDetail(u, pk)
       \/ \E u \in Students, pk \in Ids(courses) : QuizList(u, pk)
       \/ \E u \in Students, z \in Ids(quizzes), data \in SubmitBodies : QuizSubmit(u, z, data)

SpecCatalogue == InitCatalogue /\ [][NextCatalogue]_vars

\* ------------------------------------------------------------------ claims
\* The grants of section 4.1, stated on the stored rows.
PublishedContaining(package_id, course_id) ==
    \E p \in packages : p.id = package_id /\ p.is_published /\ course_id \in p.courses

ActivePurchaseGrant(s, course_id) ==
    \E pu \in purchases :
        pu.student = s /\ pu.status = "active" /\ PublishedContaining(pu.package, course_id)

FreePackageGrant(course_id) ==
    \E p \in packages : p.is_published /\ p.is_free /\ course_id \in p.courses

\* C1: whenever some published free package contains course C, has_access(S, C)
\* is true for every student S, whatever purchases S holds.
C1_FreePackageGrantsAccess ==
    \A s \in Students : \A c \in courses :
        FreePackageGrant(c.id) => student_has_course_access(s, c)

\* C2: while S holds an active purchase of a published package containing C,
\* has_access(S, C) is true and the course read is served; when no purchase of
\* S is active for such a package (it was revoked) and no free package grants
\* C, the read evaluated on that state is denied with the entitlement 403.
C2_RevocationTakesEffect ==
    \A s \in Students : \A c \in courses :
        /\ ActivePurchaseGrant(s, c.id) => student_has_course_access(s, c)
        /\ (last.op = "student_course_detail" /\ last.user = s /\ last.pk = c.id
                /\ c.is_published) =>
            /\ ActivePurchaseGrant(s, c.id) => last.status = 200
            /\ (~ActivePurchaseGrant(s, c.id) /\ ~FreePackageGrant(c.id)) =>
                    (last.status = 403 /\ last.detail = "need_package")

\* A course read denied to a student whose purchase of a published package
\* containing the course has been moved away from active.
C2_Witness ==
    /\ last.op = "student_course_detail" /\ last.status = 403
    /\ \E pu \in purchases :
        /\ pu.student = last.user /\ pu.status # "active"
        /\ PublishedContaining(pu.package, last.pk)
    /\ \E c \in courses : c.id = last.pk /\ c.is_published

\* The student content reads, and the course each one is a read of.
GateReads == {"student_course_detail", "student_subsection_detail",
              "quiz_detail", "quiz_list"}

GateCourse(resp) ==
    IF resp.op = "student_subsection_detail"
    THEN Row(sections, Row(subsections, resp.pk).section).course
    ELSE IF resp.op = "quiz_detail" THEN Row(quizzes, resp.pk).course
    ELSE resp.pk

\* What a read needs to be published to get as far as the entitlement gate.
GateVisible(resp) ==
    /\ Row(courses, GateCourse(resp)).is_published
    /\ resp.op = "quiz_detail" => Row(quizzes, resp.pk).is_published

NoGrant(s, course_id) ==
    ~ActivePurchaseGrant(s, course_id) /\ ~FreePackageGrant(course_id)

\* C3 as stated: a student without any grant on course C gets the 403
\* entitlement denial from every student content read on C.
C3_DeniedWith403 ==
    (last.op \in GateReads /\ NoGrant(last.user, GateCourse(last))) =>
        (last.status = 403 /\ last.detail = "need_package")

\* C3 amended: such a student is never served the content; the refusal is the
\* 403 entitlement denial when the course (and, for quiz detail, the quiz) is
\* published, and 404 when it is not.
C3_DeniedOrHidden ==
    (last.op \in GateReads /\ NoGrant(last.user, GateCourse(last))) =>
        /\ last.content = {}
        /\ IF GateVisible(last)
           THEN last.status = 403 /\ last.detail = "need_package"
           ELSE last.status = 404

\* A quiz detail read of a published quiz of a published course, refused to a
\* student whose only purchase is of a package that is no longer published.
C3_Witness ==
    /\ last.op = "quiz_detail" /\ last.status = 403
    /\ GateVisible(last)
    /\ NoGrant(last.user, GateCourse(last))
    /\ \E pu \in purchases : \E p \in packages :
        /\ pu.student = last.user /\ pu.status = "active" /\ pu.package = p.id
        /\ ~p.is_published /\ GateCourse(last) \in p.courses

\* ------------------------------------------------------------ quiz grading
\* The last request was a quiz_submit answered with the graded result.
SubmitSucceeded == last.op = "quiz_submit" /\ last.status = 200

\* The Submission row the last response serialized.
SubmittedRow ==
    CHOOSE s \in submissions : <<"submission", s.id>> \in last.content

QuestionsOf(quiz_id) == {q \in questions : q.quiz = quiz_id}

AnswersOf(submission_id) == {a \in answers : a.submission = submission_id}

\* The answers map m selects, for question q, a choice of q flagged correct.
SelectsCorrect(m, q) ==
    /\ q.id \in DOMAIN m
    /\ \E c \in choices : c.id = m[q.id] /\ c.question = q.id /\ c.is_correct

\* C4: after a successful quiz_submit the persisted Submission has total = the
\* number of questions of the quiz and score = the number of questions for
\* which the answers map selects a choice of the question that is its correct
\* choice; so 0 <= score <= total, and score = the number of the submission's
\* Answer rows with is_correct.
C4_ScoreCountsCorrectSelections ==
    SubmitSucceeded =>
        LET s == SubmittedRow
            m == last.input.answers
        IN  /\ s.total = Cardinality(QuestionsOf(s.quiz))
            /\ s.score = Cardinality({q \in QuestionsOf(s.quiz) : SelectsCorrect(m, q)})
            /\ 0 <= s.score /\ s.score <= s.total
            /\ s.score = Cardinality({a \in AnswersOf(s.id) : a.is_correct})

\* A graded submit of three questions: two answered correctly, one answered
\* with a wrong choice of its own.
C4_Witness ==
    /\ SubmitSucceeded
    /\ SubmittedRow.total = 3 /\ SubmittedRow.score = 2
    /\ \E a \in AnswersOf(SubmittedRow.id) : a.selected_choice # Null /\ ~a.is_correct

\* C5: a successful quiz_submit persists exactly one Answer row for every
\* question of the quiz, mentioned by the answers map or not; the row of a
\* question the map does not mention has a null selected choice and
\* is_correct = FALSE.
C5_OneAnswerPerQuestion ==
    SubmitSucceeded =>
        LET s == SubmittedRow
            m == last.input.answers
            rows == AnswersOf(s.id)
        IN  /\ Cardinality(rows) = Cardinality(QuestionsOf(s.quiz))
            /\ \A q \in QuestionsOf(s.quiz) :
                    Cardinality({a \in rows : a.question = q.id}) = 1
            /\ \A a \in rows :
                    /\ a.question \in Ids(QuestionsOf(s.quiz))
                    /\ a.question \notin DOMAIN m =>
                            (a.selected_choice = Null /\ ~a.is_correct)

\* Three questions, two answered correctly and one skipped: score 2, total 3,
\* exactly three Answer rows, one of them with a null selection.
C5_Witness ==
    /\ SubmitSucceeded
    /\ SubmittedRow.total = 3 /\ SubmittedRow.score = 2
    /\ Cardinality(DOMAIN last.input.answers) = 2
    /\ Cardinality(AnswersOf(SubmittedRow.id)) = 3
    /\ Cardinality({a \in AnswersOf(SubmittedRow.id) :
                        a.selected_choice = Null /\ ~a.is_correct}) = 1

\* The id sent for question q is the id of a choice of another question, or
\* of no choice.
ForeignChoice(m, q) ==
    /\ q.id \in DOMAIN m /\ m[q.id] # 0
    /\ ~\E c \in choices : c.id = m[q.id] /\ c.question = q.id

\* The request got past the role, publication, entitlement and payload checks.
SubmitAdmitted ==
    /\ last.op = "quiz_submit" /\ role(last.user) = "student"
    /\ \E z \in quizzes : /\ z.id = last.pk /\ z.is_published
                           /\ \E c \in courses : c.id = z.course /\ c.is_published
                           /\ ActivePurchaseGrant(last.user, z.course)
    /\ "answers" \in DOMAIN last.input

\* C6: when the id given for question q is a choice of a different question, or
\* of no choice at all, the submit still succeeds; the Answer for q and the
\* reported result for q have a null selected choice and is_correct = FALSE,
\* and q adds nothing to the score.
C6_ForeignChoiceIsNoAnswer ==
    SubmitAdmitted =>
        /\ last.status = 200
        /\ LET s == SubmittedRow
               m == last.input.answers
               foreign == {q \in QuestionsOf(s.quiz) : ForeignChoice(m, q)}
           IN  /\ \A q \in foreign : \A a \in AnswersOf(s.id) :
                    a.question = q.id => (a.selected_choice = Null /\ ~a.is_correct)
               /\ \A q \in foreign : \A k \in DOMAIN last.results :
                    last.results[k].question_id = q.id =>
                        /\ last.results[k].selected_choice_id = Null
                        /\ ~last.results[k].is_correct
               /\ s.score = Cardinality({q \in QuestionsOf(s.quiz) \ foreign :
                                            SelectsCorrect(m, q)})
               /\ last.score = s.score

\* One question answered with the correct choice of another question, another
\* with an id no choice has, a third answered correctly: score 1.
C6_Witness ==
    /\ SubmitSucceeded /\ SubmittedRow.score = 1
    /\ LET m == last.input.answers IN
        /\ \E q \in questions : \E c \in choices :
                ForeignChoice(m, q) /\ c.id = m[q.id] /\ c.is_correct
        /\ \E q \in questions :
                ForeignChoice(m, q) /\ m[q.id] \notin Ids(choices)

\* C7: submitting a published, entitled quiz without questions succeeds: a
\* Submission with score 0 and total 0 is persisted, no Answer row is created,
\* and the reported percent is 0.
C7_EmptyQuizIsGradable ==
    (SubmitAdmitted /\ QuestionsOf(last.pk) = {}) =>
        /\ last.status = 200
        /\ SubmittedRow.score = 0 /\ SubmittedRow.total = 0
        /\ AnswersOf(SubmittedRow.id) = {}
        /\ last.score = 0 /\ last.total = 0 /\ last.percent = 0
        /\ last.results = <<>>

C7_Witness ==
    /\ SubmitSucceeded /\ QuestionsOf(last.pk) = {}
    /\ SubmittedRow.quiz = last.pk /\ SubmittedRow.total = 0

\* C8: for a successful submit with total > 0 the reported percent (held in
\* hundredths) is a hundredth nearest to score / total * 100, and the reported
\* score and total are the persisted ones.
C8_PercentIsRoundedRatio ==
    (SubmitSucceeded /\ last.total > 0) =>
        LET d == last.percent * last.total - last.score * 10000
        IN  /\ 2 * d <= last.total /\ 2 * (0 - d) <= last.total
            /\ last.score = SubmittedRow.score
            /\ last.total = SubmittedRow.total

\* Score 2 of total 3 reported as 66.67.
C8_Witness ==
    SubmitSucceeded /\ last.score = 2 /\ last.total = 3 /\ last.percent = 6667

\* The Submissions of student u on quiz z.
Attempts(u, z) == {s \in submissions : s.student = u /\ s.quiz = z}

\* C9: every successful quiz_submit adds one new Submission of that student
\* on that quiz, with Answer rows of its own, and leaves every earlier
\* Submission and Answer row as it was; the authoring steps (quiz create,
\* quiz patch, add question) and the refused submits change no Submission.
\* So n successful submits leave n Submissions for the (student, quiz).
C9_EverySubmitIsANewAttempt ==
    [][IF last'.op = "quiz_submit" /\ last'.status = 200 /\ last' # last
       THEN LET new == submissions' \ submissions IN
            /\ submissions \subseteq submissions'
            /\ answers \subseteq answers'
            /\ Cardinality(new) = 1
            /\ \A s \in new : /\ s.student = last'.user /\ s.quiz = last'.pk
                               /\ s.id \notin Ids(submissions)
            /\ \A a \in answers' \ answers : a.submission \in Ids(new)
            /\ Cardinality({s \in submissions' : s.student = last'.user
                                                   /\ s.quiz = last'.pk}) =
                    Cardinality(Attempts(last'.user, last'.pk)) + 1
       ELSE submissions' = submissions /\ answers' = answers]_vars

\* Two attempts of one student on one quiz, each with its own Answer rows,
\* graded differently.
C9_Witness ==
    \E s1, s2 \in submissions :
        /\ s1.id < s2.id /\ s1.student = s2.student /\ s1.quiz = s2.quiz
        /\ s1.score # s2.score
        /\ AnswersOf(s1.id) # {} /\ AnswersOf(s2.id) # {}

\* ------------------------------------------------------ concurrent purchases
\* The purchase_package calls of student u for package p.
CallsFor(u, p) == {c \in calls : c.user = u /\ c.pk = p}

Created(cs) == {c \in cs : c.pc = "done" /\ c.status = 201}

\* C10: however the purchase_package calls of a student for a published
\* package interleave, the pair has at most one PackagePurchase row; at most
\* one call reports it as newly created, and exactly one once the calls have
\* all returned; every other call returns that row with "already owned", and
\* none ends in an error.
C10_OneRowOneCreator ==
    \A u \in Students : \A p \in packages :
        p.is_published =>
            LET cs == CallsFor(u, p.id) IN
            /\ Cardinality(PurchaseOf(u, p.id)) <= 1
            /\ Cardinality(Created(cs)) <= 1
            /\ (cs # {} /\ \A c \in cs : c.pc = "done") =>
                    Cardinality(Created(cs)) = 1
            /\ \A c \in cs : c.pc = "done" =>
                    /\ c.status \in {200, 201}
                    /\ c.purchase \in Ids(PurchaseOf(u, p.id))
                    /\ c.status = 200 => c.detail = "Package already owned"
                    /\ c.status = 201 => c.detail = "Package unlocked"

\* Three calls of one student for one package have returned; two of them ran
\* into the unique index on insert, and got the row of the third.
C10_Witness ==
    \E u \in Students : \E p \in packages :
        LET cs == CallsFor(u, p.id) IN
        /\ Cardinality(cs) = 3 /\ \A c \in cs : c.pc = "done"
        /\ Cardinality({c \in cs : c.raced /\ c.status = 200}) = 2
        /\ Cardinality(Created(cs)) = 1
        /\ Cardinality(PurchaseOf(u, p.id)) = 1

\* ---------------------------------------------------------------- authoring
\* The rule of section 4.2 on a submitted choice list.
AcceptableChoices(list) ==
    /\ Len(list) >= 2
    /\ \A k \in 1..Len(list) : list[k].text # ""
    /\ \E k \in 1..Len(list) :
        list[k].is_correct /\ \A j \in 1..Len(list) : list[j].is_correct => j = k

\* C11: an add_question by a user allowed to author the quiz is answered 400,
\* with no Question and no Choice created, when the choice list has fewer
\* than 2 entries, zero or several entries flagged correct, or an entry with
\* empty text; with an acceptable list (and an order the quiz does not use
\* yet) it is answered 201, one Question is created and each submitted choice
\* is stored, in the order sent, with its is_correct flag.
C11_ChoiceListValidated ==
    [][(last'.op = "quiz_add_question" /\ last' # last /\ last'.status \notin {403, 404}) =>
        LET data == last'.input
            base == NextId(choices)
        IN  IF ~AcceptableChoices(data.choices)
            THEN /\ last'.status = 400
                 /\ questions' = questions /\ choices' = choices
            ELSE (~\E q \in questions : q.quiz = last'.pk /\ q.order = data.order) =>
                 /\ last'.status = 201
                 /\ questions \subseteq questions' /\ choices \subseteq choices'
                 /\ Cardinality(questions' \ questions) = 1
                 /\ Cardinality(choices' \ choices) = Len(data.choices)
                 /\ \A q \in questions' \ questions :
                        /\ q.quiz = last'.pk /\ q.order = data.order
                        /\ \A k \in 1..Len(data.choices) :
                            [id |-> base + k - 1, question |-> q.id,
                             is_correct |-> data.choices[k].is_correct] \in choices'
       ]_vars

\* A list of three choices with exactly one flagged correct is stored as the
\* second question of the quiz.
C11_Witness ==
    /\ last.op = "quiz_add_question" /\ last.status = 201
    /\ Len(last.input.choices) = 3 /\ AcceptableChoices(last.input.choices)
    /\ Cardinality(questions) = 2 /\ Cardinality(choices) = 5
    /\ \E q \in questions :
        Cardinality({c \in choices : c.question = q.id /\ ~c.is_correct}) = 2

ChoicesOf(question_id) == {c \in choices : c.question = question_id}

\* C12: in every state, each stored Question has all the choices submitted
\* for it; in particular it has choices, and one of them is flagged correct.
C12_QuestionNeverPartial ==
    \A q \in questions :
        /\ ChoicesOf(q.id) # {}
        /\ \E c \in ChoicesOf(q.id) : c.is_correct
        /\ \A x \in calls :
            x.question = q.id => Cardinality(ChoicesOf(q.id)) = Len(x.data.choices)

\* ------------------------------------------------------------- answer keys
\* A quiz document shows which choice of a question is correct.
ShowsAnswerKey(doc) ==
    \E q \in doc.questions : \E c \in q.choices : "is_correct" \in DOMAIN c

\* C13: no response to a student carries a quiz (alone, in a listing or
\* inside a submission) whose choices show the is_correct flag, and the only
\* response to a student that carries correct_choice_id is the result of that
\* student's own accepted quiz_submit.
C13_AnswerKeyHiddenFromStudents ==
    role(last.user) = "student" =>
        /\ \A doc \in QuizDocuments(last) : ~ShowsAnswerKey(doc)
        /\ "results" \in DOMAIN last =>
            /\ last.op = "quiz_submit" /\ last.status = 200
            /\ \E sub \in submissions :
                /\ sub.student = last.user /\ sub.quiz = last.pk
                /\ <<"submission", sub.id>> \in last.content

\* An entitled student who has not submitted reads a quiz whose questions
\* have a correct choice stored; a teacher's read of it would show the flag.
C13_Witness ==
    /\ last.op = "quiz_detail" /\ last.status = 200 /\ role(last.user) = "student"
    /\ ~\E sub \in submissions : sub.student = last.user
    /\ \E doc \in QuizDocuments(last) :
        /\ doc.questions # {}
        /\ \A q \in doc.questions : Cardinality(q.choices) = 2
    /\ ShowsAnswerKey(QuizAdminSerializer(Row(quizzes, last.pk)))

\* ------------------------------------------------- the checks of quiz_submit
\* The quiz exists and is published, and so is its course.
Submittable(quiz_id) ==
    \E z \in quizzes : \E c \in courses :
        z.id = quiz_id /\ z.is_published /\ c.id = z.course /\ c.is_published

CourseOfQuiz(quiz_id) == (CHOOSE z \in quizzes : z.id = quiz_id).course

NothingWritten == submissions' = submissions /\ answers' = answers

\* C14: a student's quiz_submit on a quiz that does not exist, is not
\* published, or whose course is not published is answered 404 and writes no
\* Submission and no Answer, whatever the student's purchases and whatever
\* the body.
C14_UnavailableQuizNotFound ==
    [][(last'.op = "quiz_submit" /\ last' # last /\ role(last'.user) = "student"
            /\ ~Submittable(last'.pk)) =>
        (last'.status = 404 /\ NothingWritten)]_vars

\* The student who owns the package submits a well-formed answer to the
\* published quiz of an unpublished course, and is answered 404.
C14_Witness ==
    /\ last.op = "quiz_submit" /\ last.status = 404
    /\ \E pu \in purchases : pu.student = last.user /\ pu.status = "active"
    /\ "answers" \in DOMAIN last.input /\ DOMAIN last.input.answers # {}
    /\ \E z \in quizzes : z.id = last.pk /\ z.is_published
    /\ \A c \in courses : ~c.is_published
    /\ submissions = {} /\ answers = {}

\* C15: a student's quiz_submit on an available quiz whose course the student
\* holds no entitlement on is answered with the 403 entitlement denial and
\* writes no Submission and no Answer, even with a well-formed, correct body.
C15_UnentitledSubmitForbidden ==
    [][(last'.op = "quiz_submit" /\ last' # last /\ role(last'.user) = "student"
            /\ Submittable(last'.pk)
            /\ NoGrant(last'.user, CourseOfQuiz(last'.pk))) =>
        (last'.status = 403 /\ last'.detail = "need_package" /\ NothingWritten)]_vars

\* The refunded student sends the correct choice of the question and is
\* refused.
C15_Witness ==
    /\ last.op = "quiz_submit" /\ last.status = 403 /\ last.detail = "need_package"
    /\ \E pu \in purchases : pu.student = last.user /\ pu.status = "refunded"
    /\ "answers" \in DOMAIN last.input
    /\ \E q \in questions : q.quiz = last.pk /\ SelectsCorrect(last.input.answers, q)
    /\ submissions = {} /\ answers = {}

\* C16: a quiz_submit that passes the publication and entitlement checks and
\* whose answers value is not a mapping (a list, a scalar, none) is answered
\* 400 and writes no Submission and no Answer.
C16_NonMappingRejected ==
    [][(last'.op = "quiz_submit" /\ last' # last /\ role(last'.user) = "student"
            /\ Submittable(last'.pk)
            /\ ActivePurchaseGrant(last'.user, CourseOfQuiz(last'.pk))
            /\ "answers" \notin DOMAIN last'.input) =>
        (last'.status = 400 /\ NothingWritten)]_vars

\* The owner of the package sends a list as answers to an available quiz with
\* a question.
C16_Witness ==
    /\ last.op = "quiz_submit" /\ last.status = 400
    /\ "answers_list" \in DOMAIN last.input
    /\ Submittable(last.pk) /\ ActivePurchaseGrant(last.user, CourseOfQuiz(last.pk))
    /\ QuestionsOf(last.pk) # {}
    /\ submissions = {} /\ answers = {}

\* ------------------------------------------------------- course visibility
\* The course an object of a response body belongs to.
CourseOfObject(x) ==
    IF x[1] = "course" THEN x[2]
    ELSE IF x[1] = "subsection" THEN Row(sections, Row(subsections, x[2]).section).course
    ELSE IF x[1] \in {"quiz", "quiz_admin"} THEN Row(quizzes, x[2]).course
    ELSE 0

\* C17: no response to a user of role student without the staff flag carries
\* a course, sub-section or quiz of a course that is not published.
C17_OnlyPublishedCoursesVisible ==
    (role(last.user) = "student" /\ ~is_staff(last.user)) =>
        \A x \in last.content : \A c \in courses :
            c.id = CourseOfObject(x) => c.is_published

\* -------------------------------------------------------- course ownership
\* C18: can_modify_course(user, course) is true exactly when the user is
\* staff, or has role teacher and is the creator of the course or one of its
\* assigned teachers.
C18_CanModifyCourse ==
    \A u \in Users : \A c \in courses :
        can_modify_course(u, c) <=>
            \/ is_staff(u)
            \/ role(u) = "teacher" /\ (c.created_by = u \/ u \in c.assigned_teachers)

\* ------------------------------------------------------------------ pricing
\* C19: every stored package satisfies the pricing invariant: a free package
\* has price 0 and a discounted price that is 0 or absent; a paid package has
\* price > 0 and, when a discounted price is set, 0 < discounted price < price.
C19_PricingInvariant ==
    \A p \in packages :
        IF p.is_free
        THEN /\ p.price = 0
             /\ p.discounted_price = None \/ p.discounted_price[1] = 0
        ELSE /\ p.price > 0
             /\ p.discounted_price # None =>
                    (p.discounted_price[1] > 0 /\ p.discounted_price[1] < p.price)

\* C20: right after an accepted package create or update, the package, if
\* published, contains published courses only.
C20_PublishedPackageHoldsPublishedCourses ==
    (last.op \in {"package_create", "package_patch"} /\ last.status \in {200, 201}) =>
        \A x \in last.content : \A p \in packages :
            (p.id = x[2] /\ p.is_published) =>
                \A c \in courses : c.id \in p.courses => c.is_published

\* ------------------------------------------------------------ content order
\* The rows of table t under parent p (a course for sections, a section for
\* sub-sections), f naming the parent field.
Siblings(t, f, p) == {x \in t : x[f] = p}

\* No two rows of a parent share an order, and every order is 1 or more.
OrdersDistinctFromOne(t, f) ==
    \A x \in t :
        /\ x.order >= 1
        /\ \A y \in t : (x[f] = y[f] /\ x.order = y.order) => x.id = y.id

\* C21: an accepted section create stores one new section whose order is the
\* maximum order of the course's sections plus 1 (1 when it has none),
\* whatever order the client sent; after every create, update and delete no
\* two sections of a course share an order and every order is >= 1. The same
\* for the sub-sections of a section.
C21_OrderAppendedAndDistinct ==
    [][/\ (last'.op = "section_create" /\ last'.status = 201) =>
            \E x \in sections' \ sections :
                /\ sections' = sections \cup {x}
                /\ x.order = last_order(Siblings(sections, "course", x.course)) + 1
       /\ (last'.op = "subsection_create" /\ last'.status = 201) =>
            \E x \in subsections' \ subsections :
                /\ subsections' = subsections \cup {x}
                /\ x.order = last_order(Siblings(subsections, "section", x.section)) + 1
       /\ OrdersDistinctFromOne(sections', "course")
       /\ OrdersDistinctFromOne(subsections', "section")]_vars

\* --------------------------------------------------- concurrent content creates
\* The creates that got past the guards, under one parent with one computed
\* order.
Racing(c) ==
    {e \in calls : e.op = c.op /\ e.parent = c.parent /\ e.parent # Null
                    /\ e.data.order = c.data.order}

\* The rows of the table a create call writes to.
TableOf(c) == IF c.op = "section_create" THEN sections ELSE subsections

\* C22: creates under one parent that computed the same order never leave
\* two rows with the same (parent, order); at most one of them persists a row,
\* and exactly one once they have all returned; every other one fails on the
\* uniqueness of the pair (refused by the validator, or by the unique index
\* on INSERT) and leaves no row: each stored row is the row of one
\* successful create.
C22_OneCreatePerOrder ==
    /\ \A x, y \in sections : (x.course = y.course /\ x.order = y.order) => x = y
    /\ \A x, y \in subsections : (x.section = y.section /\ x.order = y.order) => x = y
    /\ \A c \in calls : c.parent # Null =>
        LET won == {e \in Racing(c) : e.pc = "done" /\ e.status = 201} IN
        /\ Cardinality(won) <= 1
        /\ (\A e \in Racing(c) : e.pc = "done") => Cardinality(won) = 1
        /\ \A e \in Racing(c) : e.pc = "done" =>
            IF e \in won
            THEN \E x \in TableOf(e) : x.id = e.row /\ x.order = e.data.order
            ELSE /\ e.row = Null
                 /\ <<e.status, e.detail>> \in {<<400, "invalid">>, <<500, "IntegrityError">>}
    /\ Cardinality(sections) =
            Cardinality({c \in calls : c.op = "section_create" /\ c.status = 201})
    /\ Cardinality(subsections) =
            Cardinality({c \in calls : c.op = "subsection_create" /\ c.status = 201})

\* Three section creates of one course computed the same order: one stored
\* its row, one was stopped by the validator and one by the unique index.
C22_Witness ==
    \E c \in calls :
        /\ c.op = "section_create" /\ Cardinality(Racing(c)) = 3
        /\ \A e \in Racing(c) : e.pc = "done"
        /\ \E e \in Racing(c) : e.status = 400
        /\ \E e \in Racing(c) : e.status = 500
        /\ Cardinality({x \in sections : x.course = c.parent}) = 1

\* ---------------------------------------------------------- lecture content
\* Exactly one of video_url and pdf_file is populated, the one content_type
\* names.
OneContentOfItsType(content_type, video_url, pdf_file) ==
    \/ content_type = "video" /\ video_url # None /\ pdf_file = None
    \/ content_type = "pdf" /\ video_url = None /\ pdf_file # None

BodyOneContentOfItsType(data) ==
    /\ "content_type" \in DOMAIN data
    /\ OneContentOfItsType(data.content_type, Get(data, "video_url", None),
                           Get(data, "pdf_file", None))

\* C23: every stored sub-section has exactly one of video_url and pdf_file
\* populated, the one matching its content_type; a create or update by a
\* user allowed to write the section that supplies both, neither, or the one
\* not matching content_type is answered 400 and stores nothing.
C23_OneContentMatchingType ==
    [][/\ \A x \in subsections' :
            OneContentOfItsType(x.content_type, x.video_url, x.pdf_file)
       /\ (last'.op \in {"subsection_create", "subsection_put"} /\ last' # last
                /\ last'.status \notin {403, 404}
                /\ ~BodyOneContentOfItsType(last'.input)) =>
            (last'.status = 400 /\ subsections' = subsections)]_vars

\* ----------------------------------------------------------- hidden content
\* The student reads of the claim.
HiddenReads == {"student_course_detail", "student_subsection_detail",
                "quiz_detail", "quiz_submit"}

\* The row a read addresses is stored.
Addressed(resp) ==
    IF resp.op = "student_course_detail" THEN resp.pk \in Ids(courses)
    ELSE IF resp.op = "student_subsection_detail" THEN resp.pk \in Ids(subsections)
    ELSE resp.pk \in Ids(quizzes)

\* The addressed content is published: the course, and for the quiz reads
\* the quiz too.
AddressedPublished(resp) ==
    IF resp.op = "student_course_detail" THEN Row(courses, resp.pk).is_published
    ELSE IF resp.op = "student_subsection_detail"
    THEN SubSectionCourse(resp.pk).is_published
    ELSE Row(quizzes, resp.pk).is_published
            /\ Row(courses, Row(quizzes, resp.pk).course).is_published

\* What the client sees of a response.
Seen(resp) == <<resp.status, resp.detail, resp.content>>

\* C24: on student quiz detail, quiz submit, student course detail and student
\* sub-section detail, a student's read of content that exists but is not
\* published gets the status and body that the same read gets for content
\* that does not exist.
C24_HiddenLooksMissing ==
    (last.op \in HiddenReads /\ role(last.user) = "student") =>
        /\ ~Addressed(last) =>
                Seen(last) = Seen(NotFound(last.op, last.user, last.pk, last.input))
        /\ (Addressed(last) /\ ~AddressedPublished(last)) =>
                Seen(last) = Seen(NotFound(last.op, last.user, last.pk, last.input))

\* ----------------------------------------------------------------- denials
\* The operations behind the teacher-or-admin role guard and the ownership
\* guard.
GuardedOps == {"quiz_detail", "quiz_patch", "teacher_quiz_submissions",
               "section_detail", "course_detail", "course_patch"}

\* The actor fails the guards of operation op on every resource: a student
\* on an operation for teachers and admins, or a teacher who is not staff
\* and may modify no course.
FailsGuard(user, op) ==
    /\ ~is_staff(user)
    /\ IF role(user) = "student"
       THEN op \in {"quiz_patch", "teacher_quiz_submissions", "section_detail",
                    "course_patch"}
       ELSE \A c \in courses : ~can_modify_course(user, c)

\* C25: an actor who fails the role or ownership guard of quiz detail, quiz
\* update, teacher quiz submissions, section detail, course detail or course
\* update gets the forbidden denial, the same response whether the addressed
\* resource exists or not.
C25_DenialBeforeLookup ==
    (last.op \in GuardedOps /\ FailsGuard(last.user, last.op)) =>
        Seen(last) = Seen(Forbidden(last.op, last.user, last.pk, last.input))

\* ------------------------------------------------------- question order
\* C26: an add_question, by a user allowed to author the quiz, with an order
\* that a question of the quiz already has is answered with a client error
\* (400 validation or 409 conflict), not with an unhandled failure, and
\* leaves questions and choices as they were; in every state the orders of a
\* quiz's questions are pairwise distinct.
C26_DuplicateOrderIsAConflict ==
    [][/\ (last'.op = "quiz_add_question" /\ last' # last
                /\ last'.status \notin {403, 404}
                /\ \E q \in questions : q.quiz = last'.pk /\ q.order = last'.input.order) =>
            /\ last'.status \in {400, 409}
            /\ questions' = questions /\ choices' = choices
       /\ \A q1, q2 \in questions' :
            (q1.quiz = q2.quiz /\ q1.order = q2.order) => q1 = q2]_vars

\* -------------------------------------------------------- graded attempts
\* C27: every step (a new submission, an added question, the deletion of a
\* choice) keeps each stored Submission with its score and total and each
\* stored Answer with its is_correct flag; the deletion of a choice keeps
\* the Answer rows that selected it and changes only their selected_choice
\* reference, to null.
C27_GradingIsFrozen ==
    [][/\ submissions \subseteq submissions'
       /\ \A a \in answers : \E b \in answers' :
            /\ b.id = a.id /\ b.submission = a.submission /\ b.question = a.question
            /\ b.is_correct = a.is_correct
            /\ IF a.selected_choice \in Ids(choices') \cup {Null}
               THEN b.selected_choice = a.selected_choice
               ELSE b.selected_choice = Null
       /\ last'.op = "choice_delete" => Ids(answers') = Ids(answers)]_vars

\* Two graded attempts; the choice that the first one selected, correctly, has
\* been deleted, and a question was added after the grading: the first
\* attempt still has score 1 of total 1 and a correct answer, now without a
\* selected choice.
C27_Witness ==
    /\ Cardinality(submissions) = 2 /\ Cardinality(questions) = 2
    /\ \E s \in submissions : \E a \in answers :
        /\ s.score = 1 /\ s.total = 1
        /\ a.submission = s.id /\ a.is_correct /\ a.selected_choice = Null
        /\ ~\E c \in choices : c.question = a.question /\ c.is_correct

\* -------------------------------------------------- grading, write by write
\* The quiz_submit calls that got past the preconditions.
Grading == {c \in calls : c.submission # Null}

\* The questions of the first n positions of the quiz, in question order.
Prefix(quiz_id, n) ==
    {q.id : q \in {q \in QuestionsOf(quiz_id) :
                        Cardinality({x \in QuestionsOf(quiz_id) : x.order < q.order}) < n}}

\* C28: from the moment the preconditions of a quiz_submit have passed, its
\* Submission row is stored with total = the question count; until the score
\* is written, after the last Answer row, the stored score is 0 and the
\* Answer rows of the Submission are those of a prefix, in question order, of
\* the quiz's questions, one row each; this is what stays when the grading is
\* interrupted. No Answer row exists without its Submission.
C28_SubmissionFirstScoreLast ==
    /\ \A a \in answers : a.submission \in Ids(submissions)
    /\ \A c \in Grading :
        \E s \in submissions :
            /\ s.id = c.submission /\ s.quiz = c.pk /\ s.student = c.user
            /\ s.total = Cardinality(QuestionsOf(c.pk))
            /\ \E n \in 0..s.total :
                /\ {a.question : a \in AnswersOf(s.id)} = Prefix(c.pk, n)
                /\ Cardinality(AnswersOf(s.id)) = n
                /\ c.status = 200 => n = s.total
            /\ IF c.status = 200
               THEN s.score = Cardinality({a \in AnswersOf(s.id) : a.is_correct})
               ELSE s.score = 0

\* A grading of two questions was interrupted after the first Answer row, a
\* correct one: the Submission stays with score 0, total 2 and the Answer of
\* the question that comes first in order.
C28_Witness ==
    \E c \in Grading : \E s \in submissions : \E a \in answers :
        /\ c.pc = "done" /\ c.status = 500
        /\ s.id = c.submission /\ s.score = 0 /\ s.total = 2
        /\ AnswersOf(s.id) = {a} /\ a.is_correct
        /\ \E q \in questions : q.id = a.question /\ q.order = 1 /\ q.id = 2

\* ----------------------------------------------------------------- refusals
\* The writes of course content.
ContentWrites ==
    {"section_create", "section_put", "section_delete",
     "subsection_create", "subsection_put", "subsection_delete",
     "course_patch", "quiz_create", "quiz_patch", "quiz_delete", "quiz_add_question"}

\* The course of the stored row with key id in table t, reached through
\* field f; Null when no row has the key.
Through(t, id, f) ==
    IF id \in Ids(t) THEN (CHOOSE x \in t : x.id = id)[f] ELSE Null

\* The course a write is made on: the course of the addressed row, or of the
\* parent named in the body of a create; Null when that row is not stored.
TargetCourse(req) ==
    IF req.op = "section_create" THEN Through(courses, Get(req.input, "course", Null), "id")
    ELSE IF req.op \in {"section_put", "section_delete"}
    THEN Through(sections, req.pk, "course")
    ELSE IF req.op = "subsection_create"
    THEN Through(sections, Get(req.input, "section", Null), "course")
    ELSE IF req.op \in {"subsection_put", "subsection_delete"}
    THEN Through(sections, Through(subsections, req.pk, "section"), "course")
    ELSE IF req.op \in {"course_patch", "quiz_create"}
    THEN Through(courses, req.pk, "id")
    ELSE Through(quizzes, req.pk, "course")

\* C29: a section or sub-section create, update or delete, a course update,
\* a quiz create, patch or delete and an add_question, by a user who may not
\* modify the course it is made on, is answered with the forbidden denial
\* and changes no stored row; a quiz_submit or purchase_package by a user
\* who is not a student changes no stored row.
C29_RefusedWritesChangeNothing ==
    [][/\ (last'.op \in ContentWrites /\ last' # last
                /\ \E c \in courses : /\ c.id = TargetCourse(last')
                                       /\ ~can_modify_course(last'.user, c)) =>
            /\ Seen(last') = Seen(Forbidden(last'.op, last'.user, last'.pk, last'.input))
            /\ UNCHANGED db
       /\ (last'.op \in {"quiz_submit", "purchase_package"} /\ last' # last
                /\ role(last'.user) # "student") =>
            UNCHANGED db]_vars

\* ---------------------------------------------------------------- catalogue
\* The gated reads of a course serve the student.
GateGrants(s, c) == c.is_published /\ student_has_course_access(s, c)

\* C30: the courses that student_course_list returns to student S are exactly
\* the published courses on which the content gate grants S access; and a
\* gated read (course detail, quiz listing, quiz submit) of a course is
\* served exactly when the gate grants it.
C30_ListAgreesWithGate ==
    /\ (last.op = "student_course_list" /\ last.status = 200) =>
            last.content = {<<"course", c.id>> : c \in {c \in courses :
                                                    GateGrants(last.user, c)}}
    /\ (last.op \in {"student_course_detail", "quiz_list"}) =>
            (last.status = 200 <=>
                \E c \in courses : c.id = last.pk /\ GateGrants(last.user, c))
    /\ (last.op = "quiz_submit" /\ last.status \notin {400, 404}) =>
            (last.status = 200 <=>
                \E c \in courses : c.id = CourseOfQuiz(last.pk) /\ GateGrants(last.user, c))

=============================================================================
